---- MODULE Spec2Model ----
(***************************************************************************)
(* Coastal-guard: geospatial clustering of citizen reports (app.py),      *)
(* hotspot detection over classified social posts (modules/aggregation.py) *)
(* and the report-correlation agent (agents/agent2_report_analysis.py).    *)
(*                                                                         *)
(* Numbers.  Coordinates are counted in units of 0.02 degree from the      *)
(* equator / prime meridian, so the value 0 is the Python float 0.0.       *)
(* Distances and radii are in metres.  Scores and confidences are in       *)
(* hundredths (75 is 0.75); an overall confidence is in thousandths.       *)
(* A Python value that may be None is a sequence of length <= 1: <<>> is   *)
(* None and <<v>> is the value v.                                          *)
(***************************************************************************)
EXTENDS Integers, Sequences, FiniteSets, TLC

VARIABLES
    \* --- cluster_reports_by_location and its callers -------------------
    reports,        \* rows of the reports table as a dashboard reads them,
                    \* newest first (ORDER BY created_at DESC)
    radius_km,      \* radius of the latest call (metres)
    clusters,       \* list returned by the latest call
    prev_radius,    \* radius of the call before the latest one
    prev_clusters,  \* list returned by the call before the latest one
    calls,          \* number of calls made on the current reports
    \* --- AggregationService.detect_hotspots ---------------------------
    analyzed_posts,          \* posts handed to detect_hotspots
    hotspot_post_threshold,  \* AggregationService.hotspot_post_threshold
    hotspots,                \* list returned by detect_hotspots
    detected,                \* TRUE once detect_hotspots has returned
    \* --- ReportAnalysisAgent._normalize_urgency -------------------------
    urgency,             \* argument urgency (None when the classifier gave none)
    confidence,          \* argument confidence, in hundredths
    post_text,           \* argument post_text
    normalized_urgency,  \* the value returned, None before the call
    \* --- ReportAnalysisAgent._calculate_overall_confidence --------------
    correlations,        \* the list of correlation results
    overall_confidence,  \* the value returned (thousandths), None before the call
    \* --- ReportAnalysisAgent.process_user_report ------------------------
    deepseek_api_key,    \* TRUE when DEEPSEEK_API_KEY is configured
    rapidapi_key,        \* TRUE when RAPIDAPI_KEY is configured
    report_data,         \* the report dictionary passed in and returned
    pc,                  \* position of the run: keywords, search, analyze, returned
    keywords_data,       \* result of _generate_search_keywords, None before it
    keywords_failed,     \* TRUE when the keyword call raised
    matches,             \* posts fetched by the queries sent so far
    search_log,          \* per query sent to the search API: TRUE when it failed
    social_posts,        \* the list handed to _analyze_correlations
    analyzed,            \* per post classified so far: the call's fate and result
    clock,               \* seconds elapsed since the run started
    sent_at,             \* per query sent to the search API: the time it was sent
    fallback_calls,      \* calls of _basic_hazard_analysis made so far, with results
    handler_pc,          \* per submission: position of the create_report request
    task_pc,             \* per submission: position of its background task
    report_id_of,        \* per submission: the row id its request got (lastrowid)
    rows,                \* the reports table: row id -> the three correlation fields
    enhanced,            \* per submission: what process_user_report returned
    write_log,           \* every committed UPDATE of the correlation fields
    status_history,      \* the rows of report_status_history, oldest first
    \* --- admin_update_report_status -------------------------------------
    admin_pc,            \* position of the admin's request
    admin_request,       \* report_id, status and notes of the request
    admin_seen,          \* what its SELECT read from the report's row
    admin_log,           \* every committed UPDATE of the status: row and time
    now,                 \* CURRENT_TIMESTAMP, in seconds
    \* --- AggregationService._extract_location_info ----------------------
    group_posts,         \* the posts of one hotspot, in the order of the batch
    location_runs        \* the descriptors returned by the runs made on them

clusterVars == <<reports, radius_km, clusters, prev_radius, prev_clusters, calls>>
hotspotVars == <<analyzed_posts, hotspot_post_threshold, hotspots, detected>>
normalizeVars == <<urgency, confidence, post_text, normalized_urgency>>
confidenceVars == <<correlations, overall_confidence>>
agentVars == <<deepseek_api_key, rapidapi_key, report_data, pc, keywords_data,
               keywords_failed, matches, search_log, social_posts, analyzed,
               clock, sent_at>>
fallbackVars == <<fallback_calls>>
createVars == <<handler_pc, task_pc, report_id_of, rows, enhanced, write_log,
                status_history>>
adminVars == <<admin_pc, admin_request, admin_seen, admin_log, now>>
locationVars == <<group_posts, location_runs>>
vars == <<clusterVars, hotspotVars, normalizeVars, confidenceVars, agentVars,
          fallbackVars, createVars, locationVars, adminVars>>

None == <<>>
Some(v) == <<v>>

\* Python truthiness of an optional float: None and 0.0 are falsy.
Truthy(x) == x # None /\ x[1] # 0

Abs(n) == IF n < 0 THEN -n ELSE n
Min(a, b) == IF a <= b THEN a ELSE b

(***************************************************************************)
(* Bounds of the model.                                                    *)
(***************************************************************************)
MaxReports == 4
MaxCalls == 2

\* Coordinates a submitted report may carry: <<latitude, longitude>>.
\* Four places far apart, one place next to the first, a report on the
\* equator (latitude 0.0) and a report without a longitude.
Coords ==
    { <<Some(1), Some(1)>>, <<Some(3), Some(3)>>, <<Some(1), Some(4)>>,
      <<Some(4), Some(1)>>, <<Some(2), Some(1)>>,
      <<Some(0), Some(3)>>, <<Some(3), None>> }

\* Radii the dashboards may ask for; 4000 is the default radius_km=4.0.
Radii == {4000, 5000, 6500}

(***************************************************************************)
(* haversine_distance.  On this grid (0 .. 0.08 degree) the value of the   *)
(* source formula, rounded to the metre, depends only on the absolute      *)
(* differences in latitude and longitude; HaversineM[dlat+1][dlon+1] is    *)
(* that value.                                                             *)
(***************************************************************************)
HaversineM ==
    << <<    0, 2224, 4448,  6672,  8896 >>,
       << 2224, 3145, 4973,  7033,  9169 >>,
       << 4448, 4973, 6290,  8018,  9946 >>,
       << 6672, 7033, 8018,  9435, 11119 >>,
       << 8896, 9169, 9946, 11119, 12580 >> >>

haversine_distance(lat1, lon1, lat2, lon2) ==
    HaversineM[Abs(lat2 - lat1) + 1][Abs(lon2 - lon1) + 1]

(***************************************************************************)
(* cluster_reports_by_location(reports, radius_km)                         *)
(***************************************************************************)
\* The membership test of the inner loop.
FartherThanRadius(distance, radius) == distance >= radius

WithinRadius(distance, radius) == distance <= radius

\* valid_reports = [r for r in reports if r['latitude'] and r['longitude']]
HasValidCoordinates(r) == Truthy(r.latitude) /\ Truthy(r.longitude)

valid_reports(rs) == SelectSeq(rs, HasValidCoordinates)

\* Only the seed itself would be skipped by the scan.
OnlySeedSkipped(i, j, used) == i = j

\* if j in used_indices or i == j: continue
AlreadyAssigned(i, j, used) == j \in used \/ i = j

\* The inner loop "for j, other_report in enumerate(valid_reports)" for the
\* seed at index i: the indices it adds to the cluster, in visiting order.
RECURSIVE NearbyIndices(_, _, _, _, _)
NearbyIndices(valid, i, j, used, radius) ==
    IF j > Len(valid) THEN <<>>
    ELSE IF AlreadyAssigned(i, j, used)
         THEN NearbyIndices(valid, i, j + 1, used, radius)
         ELSE LET distance == haversine_distance(
                                  valid[i].latitude[1], valid[i].longitude[1],
                                  valid[j].latitude[1], valid[j].longitude[1])
              IN  IF WithinRadius(distance, radius)
                  THEN <<j>> \o NearbyIndices(valid, i, j + 1, used \cup {j}, radius)
                  ELSE NearbyIndices(valid, i, j + 1, used, radius)

RECURSIVE SumSeq(_)
SumSeq(s) == IF s = <<>> THEN 0 ELSE Head(s) + SumSeq(Tail(s))

SeqMin(s) == CHOOSE x \in {s[k] : k \in DOMAIN s} : \A k \in DOMAIN s : x <= s[k]
SeqMax(s) == CHOOSE x \in {s[k] : k \in DOMAIN s} : \A k \in DOMAIN s : x >= s[k]

\* The cluster opened at seed i once its members are known.  A centroid is
\* the exact quotient num/den: the seed's own coordinate for a singleton,
\* the mean of the members' coordinates otherwise.
MakeCluster(valid, i, nearby) ==
    LET idx     == <<i>> \o nearby
        members == [k \in DOMAIN idx |-> valid[idx[k]]]
        count   == Len(members)
    IN  [ centroid_lat |-> [num |-> SumSeq([k \in DOMAIN members |-> members[k].latitude[1]]),
                            den |-> count],
          centroid_lng |-> [num |-> SumSeq([k \in DOMAIN members |-> members[k].longitude[1]]),
                            den |-> count],
          members      |-> members,
          count        |-> count,
          first_report |-> SeqMin([k \in DOMAIN members |-> members[k].created_at]),
          last_report  |-> SeqMax([k \in DOMAIN members |-> members[k].created_at]) ]

\* if i in used_indices: continue
SkipsReport(i, used) == i \in used

\* The outer loop "for i, report in enumerate(valid_reports)".
RECURSIVE BuildClusters(_, _, _, _)
BuildClusters(valid, i, used, radius) ==
    IF i > Len(valid) THEN <<>>
    ELSE IF SkipsReport(i, used) THEN BuildClusters(valid, i + 1, used, radius)
    ELSE LET nearby == NearbyIndices(valid, i, 1, used \cup {i}, radius)
             used2  == used \cup {i} \cup {nearby[k] : k \in DOMAIN nearby}
         IN  <<MakeCluster(valid, i, nearby)>> \o BuildClusters(valid, i + 1, used2, radius)

\* clusters.sort(key=lambda x: x['count'], reverse=True): a stable sort, so
\* clusters of equal count keep the order in which they were built.
RECURSIVE InsertByCount(_, _)
InsertByCount(sorted, c) ==
    IF sorted = <<>> THEN <<c>>
    ELSE IF Head(sorted).count >= c.count
         THEN <<Head(sorted)>> \o InsertByCount(Tail(sorted), c)
         ELSE <<c>> \o sorted

RECURSIVE SortFrom(_, _)
SortFrom(sorted, rest) ==
    IF rest = <<>> THEN sorted
    ELSE SortFrom(InsertByCount(sorted, Head(rest)), Tail(rest))

UnsortedClusters(cs) == cs

SortByCountDesc(cs) == SortFrom(<<>>, cs)

cluster_reports_by_location(rs, radius) ==
    IF rs = <<>> THEN <<>>
    ELSE LET valid == valid_reports(rs)
         IN  IF valid = <<>> THEN <<>>
             ELSE SortByCountDesc(BuildClusters(valid, 1, {}, radius))

(***************************************************************************)
(* Post texts.  A text is the set of the words and phrases it is made of;  *)
(* Lower is str.lower() on one of them and SubstringsOf gives the strings  *)
(* the agent searches for that occur inside the lower-cased word, so that  *)
(* "needle in text.lower()" is InText(needle, text).                       *)
(***************************************************************************)
Lower(w) ==
    CASE w = "Evacuate"     -> "evacuate"
      [] w = "#Emergency"   -> "#emergency"
      [] w = "Water"        -> "water"
      [] w = "Flood"        -> "flood"
      [] w = "Tsunami"      -> "tsunami"
      [] w = "Mumbai"       -> "mumbai"
      [] w = "Maharashtra"  -> "maharashtra"
      [] w = "Chennai"      -> "chennai"
      [] w = "Tamil Nadu"   -> "tamil nadu"
      [] w = "Experiencing" -> "experiencing"
      [] w = "Other"        -> "other"
      [] w = "Storm Surge"  -> "storm surge"
      [] w = "High Waves"   -> "high waves"
      [] w = "Coastal Erosion" -> "coastal erosion"
      [] OTHER              -> w

SubstringsOf(lw) ==
    CASE lw = "#emergency"   -> {"emergency"}
      [] lw = "collapsed"    -> {"collapsed", "collapse"}
      [] lw = "breached"     -> {"breached", "breach"}
      [] lw = "test drill"   -> {"test drill", "drill"}
      [] lw = "flooding"     -> {"flooding", "flood"}
      [] lw = "waterlogged"  -> {"waterlogged", "water"}
      [] lw = "right now"    -> {"right now", "now"}
      [] lw = "experiencing" -> {}
      [] OTHER               -> {lw}

LowerText(text) == {Lower(w) : w \in text}

\* needle in lowered, for a text that has been lower-cased already.
InLowered(needle, lowered) == \E lw \in lowered : needle \in SubstringsOf(lw)

\* any(c in lowered for c in cues)
AnyIn(cues, lowered) == \E c \in cues : InLowered(c, lowered)

(***************************************************************************)
(* ReportAnalysisAgent._normalize_urgency                                  *)
(***************************************************************************)
strong_cues == {"emergency", "evacuate", "evacuation", "rescue", "immediately",
                "life threatening", "impassable", "trapped", "collapsed",
                "collapse", "mayday"}
moderate_cues == {"rising", "increasing", "severe", "heavy", "warning", "alert",
                  "overflow", "breach", "breached"}
down_cues == {"rumor", "hoax", "false alarm", "fake", "test drill", "drill"}

\* The rule for moderate cues without its confidence condition.
ModerateAtAnyConfidence(lowered, conf) == AnyIn(moderate_cues, lowered)

\* any(c in text for c in moderate_cues) and confidence >= 0.55
ModerateApplies(lowered, conf) == AnyIn(moderate_cues, lowered) /\ conf >= 55

\* The de-escalation rule placed after the rule for strong cues.
normalize_urgency_strong_first(urg, conf, text) ==
    LET lowered == LowerText(text)
    IN  IF AnyIn(strong_cues, lowered) /\ conf >= 70 THEN "High"
        ELSE IF AnyIn(down_cues, lowered) THEN "Low"
        ELSE IF AnyIn(moderate_cues, lowered) /\ conf >= 55 THEN "Medium"
        ELSE IF urg = Some("High") /\ conf < 70 THEN "Medium"
        ELSE IF urg = Some("Medium") /\ conf < 50 THEN "Low"
        ELSE IF urg = None THEN "Low" ELSE urg[1]

normalize_urgency(urg, conf, text) ==
    LET lowered == LowerText(text)
    IN  IF AnyIn(down_cues, lowered) THEN "Low"
        ELSE IF AnyIn(strong_cues, lowered) /\ conf >= 70 THEN "High"
        ELSE IF ModerateApplies(lowered, conf) THEN "Medium"
        ELSE IF urg = Some("High") /\ conf < 70 THEN "Medium"
        ELSE IF urg = Some("Medium") /\ conf < 50 THEN "Low"
        ELSE IF urg = None THEN "Low" ELSE urg[1]

\* Inputs of the calls the model makes.
NormalizeWords == {"Evacuate", "collapsed", "rising", "help", "Flood",
                   "hoax", "test drill", "rumor", "fake", "drill", "#Emergency"}
Urgencies == {"Low", "Medium", "High"}
NormalizeConfidences == {0, 49, 50, 55, 69, 70, 90}

InitNormalize ==
    /\ urgency \in {None} \cup {Some(u) : u \in Urgencies}
    /\ confidence \in NormalizeConfidences
    /\ post_text \in SUBSET NormalizeWords
    /\ normalized_urgency = None

InitNormalizeIdle ==
    /\ urgency = None
    /\ confidence = 0
    /\ post_text = {}
    /\ normalized_urgency = None

NormalizeUrgency ==
    /\ normalized_urgency = None
    /\ normalized_urgency' = Some(normalize_urgency(urgency, confidence, post_text))
    /\ UNCHANGED <<urgency, confidence, post_text>>

(***************************************************************************)
(* ReportAnalysisAgent._calculate_overall_confidence                       *)
(***************************************************************************)
MaxCorrelations == 3

recent_indicators == {"now", "currently", "right now", "happening", "just",
                      "minutes ago", "hours ago"}

is_recent_post(text) == AnyIn(recent_indicators, LowerText(text))

\* 'location' in str(matching_elements) / 'hazard' in str(matching_elements):
\* the tags whose text contains the word.
MentionsLocation(matching_elements) ==
    \E k \in DOMAIN matching_elements :
        matching_elements[k] \in {"location_city", "location_state"}
MentionsHazard(matching_elements) ==
    \E k \in DOMAIN matching_elements :
        matching_elements[k] \in {"hazard_direct", "hazard_ai"}

CountWhere(corrs, P(_)) == Cardinality({k \in DOMAIN corrs : P(corrs[k])})

\* min(overall_confidence + bonus, cap)
Uncapped(value, cap) == value

Cap(value, cap) == IF value <= cap THEN value ELSE cap

\* round(x, 3) of the quotient num/den, in thousandths when num is counted
\* in thousandths of den: nearest, a tie going to the even neighbour.
Round3(num, den) ==
    LET q == num \div den
        r == num % den
    IN  IF 2 * r < den THEN q
        ELSE IF 2 * r > den THEN q + 1
        ELSE IF q % 2 = 0 THEN q ELSE q + 1

\* urgency_boost += 0.05 for a High result, in thousandths.
HighUrgencyBoostDoubled == 2 * 50

HighUrgencyBoost == 50

\* urgency_boost += 0.02 for a Medium result.
MediumUrgencyBoost == 20

\* The cap of the urgency step, in thousandths.
UrgencyCapAtCeiling == 920 + 30

UrgencyCap == 920

\* The running value is kept as a numerator over total_weight, in
\* thousandths: score and confidence are hundredths, so a weight is
\* score * confidence and the weighted average is
\* 10 * sum(weight * score) / sum(weight) thousandths.
calculate_overall_confidence(corrs) ==
    IF corrs = <<>> THEN 0
    ELSE
    LET weight(c) == c.correlation_score * c.confidence
        total_weight == SumSeq([k \in DOMAIN corrs |-> weight(corrs[k])])
        weighted_score == SumSeq([k \in DOMAIN corrs |->
                                     weight(corrs[k]) * corrs[k].correlation_score])
        IsHighConfidence(c) == c.correlation_score > 70
        HasLocation(c) == MentionsLocation(c.matching_elements)
        HasHazard(c) == MentionsHazard(c.matching_elements)
        IsHigh(c) == c.urgency = "High"
        IsMedium(c) == c.urgency = "Medium"
        IsRecent(c) == is_recent_post(c.post_text)
        high_confidence_count == CountWhere(corrs, IsHighConfidence)
        location_matches == CountWhere(corrs, HasLocation)
        hazard_matches == CountWhere(corrs, HasHazard)
        \* urgency_boost * 0.5, in thousandths
        half_urgency_boost == (HighUrgencyBoost * CountWhere(corrs, IsHigh)
                                  + MediumUrgencyBoost * CountWhere(corrs, IsMedium)) \div 2
        recent_posts == CountWhere(corrs, IsRecent)
        D  == total_weight
        c0 == 10 * weighted_score
        c1 == IF high_confidence_count >= 3 THEN Cap(c0 + 50 * D, 950 * D)
              ELSE IF high_confidence_count >= 2 THEN Cap(c0 + 30 * D, 920 * D)
              ELSE c0
        c2 == IF location_matches >= 2 THEN Cap(c1 + 30 * D, 900 * D) ELSE c1
        c3 == IF hazard_matches >= 2 THEN Cap(c2 + 20 * D, 880 * D) ELSE c2
        c4 == Cap(c3 + half_urgency_boost * D, UrgencyCap * D)
        c5 == IF recent_posts >= 2 THEN Cap(c4 + 20 * D, 900 * D) ELSE c4
        c6 == Cap(c5, 950 * D)
    IN  IF total_weight = 0 THEN 0 ELSE Round3(c6, D)

Correlation(score, conf, urg, elements, text) ==
    [ correlation_score |-> score, confidence |-> conf, urgency |-> urg,
      matching_elements |-> elements, post_text |-> text ]

\* Correlation results the model feeds in: scores and confidences over the
\* whole of [0, 1], every urgency, with and without location, hazard and
\* recency evidence.
CorrelationKinds ==
    { Correlation(100, 100, "High", <<"location_city", "hazard_ai", "urgency">>, {"now"}),
      Correlation(100, 100, "Low", <<>>, {}),
      Correlation(75, 75, "High", <<"hazard_direct", "urgency">>, {"Water", "rising"}),
      Correlation(90, 40, "Medium", <<"location_state", "urgency">>, {"right now"}),
      Correlation(50, 100, "Low", <<"temporal:recent">>, {"now"}),
      Correlation(31, 31, "Medium", <<"urgency">>, {}),
      Correlation(0, 80, "High", <<"urgency">>, {}),
      Correlation(60, 0, "Low", <<>>, {}) }

InitConfidence ==
    /\ correlations = <<>>
    /\ overall_confidence = None

\* One more correlation result is put on the list.
AddCorrelation(c) ==
    /\ overall_confidence = None
    /\ Len(correlations) < MaxCorrelations
    /\ correlations' = Append(correlations, c)
    /\ UNCHANGED overall_confidence

CalculateOverallConfidence ==
    /\ overall_confidence = None
    /\ overall_confidence' = Some(calculate_overall_confidence(correlations))
    /\ UNCHANGED correlations

(***************************************************************************)
(* ReportAnalysisAgent: keyword generation, search, classification.        *)
(***************************************************************************)
\* Fate of one HTTP call: answered with status 200 and parseable JSON, or
\* one of the failures.  "bad_shape" is a 200 answer whose JSON parses but
\* lacks the shape the caller reads (only the classifier reads inside a try).
HttpOutcomes == {"ok", "transport_error", "non_200", "bad_json"}
ClassifierOutcomes == HttpOutcomes \cup {"bad_shape"}

\* _call_deepseek_api raises "API key not configured" before any request
\* when the key is missing; otherwise the request has one of the fates.
NotConfigured == "not_configured"
Possible(outcome) == (outcome = NotConfigured) <=> ~deepseek_api_key

\* _generate_basic_keywords.  A query is the list of its words.
basic_hazard_keywords(hazard) ==
    CASE hazard = "flood"      -> <<"flood", "flooding", "waterlogged", "inundated">>
      [] hazard = "cyclone"    -> <<"cyclone", "storm", "hurricane", "typhoon">>
      [] hazard = "tsunami"    -> <<"tsunami", "tidal wave", "sea wave">>
      [] hazard = "high_waves" -> <<"high waves", "rough seas", "giant waves">>
      [] OTHER                 -> <<hazard, "disaster", "emergency">>

generate_basic_keywords(report) ==
    LET hazard == Lower(report.hazard_type)
        city   == Lower(report.city)
    IN  [ kind              |-> "dict",
          primary_keywords  |-> basic_hazard_keywords(hazard),
          location_keywords |-> IF city # "" THEN <<city>> ELSE <<>>,
          combined_queries  |-> Some(<< <<hazard, city>>, <<hazard, "emergency">>,
                                        <<"help", city>> >>) ]

LlmKeywords(queries) ==
    [ kind |-> "dict", primary_keywords |-> <<"flood">>,
      location_keywords |-> <<"mumbai">>, combined_queries |-> queries ]

\* What json.loads may hand back from the keyword call: an object with four
\* queries, with one query, with no queries, without the key
\* combined_queries, with combined_queries null, or a JSON array.
KeywordResponses ==
    { LlmKeywords(Some(<< <<"flood", "mumbai">>, <<"mumbai", "rain">>,
                          <<"#MumbaiFloods">>, <<"baarish">> >>)),
      LlmKeywords(Some(<< <<"flood", "mumbai">> >>)),
      LlmKeywords(Some(<<>>)),
      [kind |-> "dict", primary_keywords |-> <<"flood">>, location_keywords |-> <<>>],
      [kind |-> "dict", primary_keywords |-> <<"flood">>, location_keywords |-> <<>>,
       combined_queries |-> None],
      [kind |-> "list"] }

\* keywords_data.get('combined_queries', []) followed by [:3]; the first
\* raises on a value that is not a dict, the second on None.
KeywordsReadable(kd) ==
    /\ kd.kind = "dict"
    /\ "combined_queries" \in DOMAIN kd => kd.combined_queries # None

search_queries(kd) ==
    IF "combined_queries" \in DOMAIN kd THEN kd.combined_queries[1] ELSE <<>>

FirstThree(qs) == SubSeq(qs, 1, Min(3, Len(qs)))

\* _simulate_social_media_search: the one synthetic post of a query; the
\* uuid4 of its id is fresh, here the number of the query.
SimId(k) == CASE k = 1 -> "sim_1" [] k = 2 -> "sim_2" [] OTHER -> "sim_3"

\* The synthetic post without its closing hashtag.
simulated_post_without_hashtag(k, report) ==
    [ id     |-> SimId(k),
      text   |-> {"Experiencing", report.hazard_type, "in", report.city,
                  "Water", "levels", "rising", "rapidly"},
      source |-> "simulated_twitter" ]

simulate_social_media_search(k, report) ==
    [ id     |-> SimId(k),
      text   |-> {"Experiencing", report.hazard_type, "in", report.city,
                  "Water", "levels", "rising", "rapidly", "#Emergency"},
      source |-> "simulated_twitter" ]

\* _fallback_simulated_search
fallback_simulated_search(queries, report) ==
    [k \in 1..Len(FirstThree(queries)) |-> simulate_social_media_search(k, report)]

\* Tweets the search API may return, as _real_twitter_search parses them.
Tweet(id, text) == [id |-> id, text |-> text, source |-> "rapidapi_twitter"]
TweetA == Tweet("t1", {"Flood", "in", "Mumbai", "Evacuate", "now"})
TweetB == Tweet("t2", {"flooding", "is", "a", "hoax", "#Emergency"})
TweetC == Tweet("t3", {"nice", "weather", "today"})
TweetBatches == { <<TweetA, TweetB>>, <<TweetB, TweetC>>, <<>> }

\* No id counts as seen.
NeverSeen(post_id, seen_ids) == FALSE

\* post_id in seen_ids
AlreadySeen(post_id, seen_ids) == post_id \in seen_ids

\* The loop "Remove duplicates based on post ID".
RECURSIVE unique_matches(_, _)
unique_matches(ms, seen_ids) ==
    IF ms = <<>> THEN <<>>
    ELSE LET post_id == Head(ms).id
         IN  IF post_id # "" /\ ~AlreadySeen(post_id, seen_ids)
             THEN <<Head(ms)>> \o unique_matches(Tail(ms), seen_ids \cup {post_id})
             ELSE unique_matches(Tail(ms), seen_ids)

\* severity_class / priority_score from urgency and confidence.
Severity(urg, conf) ==
    IF urg = "High" /\ conf > 70 THEN <<"critical", 5>>
    ELSE IF urg = "High" \/ (urg = "Medium" /\ conf > 80) THEN <<"high", 4>>
    ELSE IF urg = "Medium" /\ conf > 60 THEN <<"medium", 3>>
    ELSE IF conf > 50 THEN <<"low", 2>>
    ELSE <<"minimal", 1>>

\* _extract_matching_elements; a tag stands for the f-string that starts
\* with it.
extract_matching_elements(report, post, analysis) ==
    LET lowered == LowerText(post.text)
        report_city == Lower(report.city)
        report_state == Lower(report.state)
        report_hazard == Lower(report.hazard_type)
        detected_hazard == Lower(analysis.hazard_type)
    IN  (IF report_city # "" /\ InLowered(report_city, lowered)
            THEN <<"location_city">> ELSE <<>>)
     \o (IF report_state # "" /\ InLowered(report_state, lowered)
            THEN <<"location_state">> ELSE <<>>)
     \o (IF report_hazard # "" /\ InLowered(report_hazard, lowered)
            THEN <<"hazard_direct">> ELSE <<>>)
     \o (IF detected_hazard # "" /\ detected_hazard = report_hazard
            THEN <<"hazard_ai">> ELSE <<>>)
     \o (IF analysis.urgency = "High" THEN <<"urgency:high">>
         ELSE IF analysis.urgency = "Medium" THEN <<"urgency:medium">> ELSE <<>>)
     \o (IF AnyIn(recent_indicators, lowered) THEN <<"temporal:recent">> ELSE <<>>)
     \o (IF analysis.original_language # "en" THEN <<"language">> ELSE <<>>)
     \o (IF analysis.seasonal_pattern THEN <<"pattern:seasonal">> ELSE <<>>)

CorrelationResult(post, analysis, urg, severity, elements) ==
    [ post_id           |-> post.id,
      post_text         |-> post.text,
      post_source       |-> post.source,
      original_language |-> analysis.original_language,
      hazard_detected   |-> analysis.hazard_detected,
      hazard_type       |-> analysis.hazard_type,
      urgency           |-> urg,
      confidence        |-> analysis.confidence,
      correlation_score |-> analysis.confidence,
      severity_class    |-> severity[1],
      priority_score    |-> severity[2],
      matching_elements |-> elements ]

\* _basic_hazard_analysis
\* The categories tried from the last entry of the dict to the first.
reversed_category_order == <<"Coastal Erosion", "High Waves", "Storm Surge", "Flood">>

\* "for hazard_type, keywords in hazard_keywords.items()": a dict iterates
\* in insertion order.
hazard_category_order == <<"Flood", "Storm Surge", "High Waves", "Coastal Erosion">>

hazard_category_keywords(category) ==
    CASE category = "Flood" -> {"flood", "flooding", "water", "rain", "inundated",
                                "waterlogged", "baarish", "paani"}
      [] category = "Storm Surge" -> {"surge", "storm", "cyclone", "hurricane", "toofan"}
      [] category = "High Waves" -> {"waves", "tsunami", "tidal", "sea", "ocean", "samundar"}
      [] OTHER -> {"erosion", "coast", "beach", "shore"}

\* A confidence below the cutoff for a text without hazard keyword.
NoHazardConfidenceBelowCutoff == 50 \div 2

\* confidence = 0.5, the value a text without hazard keyword keeps.
NoHazardConfidence == 50

\* The text the keyword tests read, with the report's hazard type put in.
FallbackTextWithReport(report, post) == LowerText(post.text \cup {report.hazard_type})

\* post_text = post_data.get('text', '').lower()
FallbackText(report, post) == LowerText(post.text)

basic_hazard_analysis(report, post) ==
    LET lowered == FallbackText(report, post)
        hits == {k \in DOMAIN hazard_category_order :
                    AnyIn(hazard_category_keywords(hazard_category_order[k]), lowered)}
        first == CHOOSE k \in hits : \A j \in hits : k <= j
        uc == IF hits = {} THEN <<"Low", NoHazardConfidence>>
              ELSE IF AnyIn({"emergency", "evacuate", "rescue", "life threatening", "trapped"}, lowered)
                   THEN <<"High", 75>>
              ELSE IF AnyIn({"urgent", "help", "danger", "severe", "heavy"}, lowered)
                   THEN <<"Medium", 65>>
              ELSE IF AnyIn({"rising", "increasing", "getting worse", "warning"}, lowered)
                   THEN <<"Medium", 60>>
              ELSE <<"Low", 55>>
        analysis == [ original_language |-> IF AnyIn({"paani", "baarish", "toofan", "samundar"}, lowered)
                                            THEN "hi" ELSE "en",
                      hazard_detected   |-> hits # {},
                      hazard_type       |-> IF hits = {} THEN "Other" ELSE hazard_category_order[first],
                      urgency           |-> uc[1],
                      confidence        |-> uc[2],
                      seasonal_pattern  |-> TRUE ]
    IN  CorrelationResult(post, analysis,
                          normalize_urgency(Some(uc[1]), uc[2], post.text),
                          Severity(uc[1], uc[2]),
                          extract_matching_elements(report, post, analysis))

\* Answers of the remote classifier the model feeds in: urgency and
\* confidence as the JSON gave them (None when the key is absent).
LlmAnalysis(urg, conf, hazard) ==
    [ original_language |-> "en", hazard_detected |-> hazard # "Other",
      hazard_type |-> hazard, urgency |-> urg, confidence |-> conf,
      seasonal_pattern |-> FALSE ]

LlmAnalyses ==
    { LlmAnalysis(Some("High"), Some(90), "Flood"),
      LlmAnalysis(Some("High"), Some(60), "Flood"),
      LlmAnalysis(Some("Medium"), Some(30), "Other"),
      LlmAnalysis(None, None, "Other") }

\* The try block of _analyze_single_correlation on a well-formed answer.
remote_correlation(report, post, answer) ==
    LET conf == IF answer.confidence = None THEN 0 ELSE answer.confidence[1]
        urg  == normalize_urgency(answer.urgency, conf, post.text)
        analysis == [answer EXCEPT !.urgency = urg, !.confidence = conf]
    IN  CorrelationResult(post, analysis, urg, Severity(urg, conf),
                          extract_matching_elements(report, post, analysis))

\* if confidence_score > 0.3: correlations.append(correlation)
KeepFromThreshold(score) == score >= 30

KeepCorrelation(score) == score > 30

\* correlations.sort(key=correlation_score, reverse=True), a stable sort.
RECURSIVE InsertByScore(_, _)
InsertByScore(sorted, c) ==
    IF sorted = <<>> THEN <<c>>
    ELSE IF Head(sorted).correlation_score >= c.correlation_score
         THEN <<Head(sorted)>> \o InsertByScore(Tail(sorted), c)
         ELSE <<c>> \o sorted

RECURSIVE SortByScoreFrom(_, _)
SortByScoreFrom(sorted, rest) ==
    IF rest = <<>> THEN sorted
    ELSE SortByScoreFrom(InsertByScore(sorted, Head(rest)), Tail(rest))

SortByScoreDesc(cs) == SortByScoreFrom(<<>>, cs)

\* Reports passed in: a fresh one as create_report builds it, and one that
\* an earlier run has scored already.
Report(keywords, corrs, conf) ==
    [ hazard_type |-> "Flood", city |-> "Mumbai", state |-> "Maharashtra",
      generated_keywords |-> keywords, social_media_correlations |-> corrs,
      correlation_confidence |-> conf, processing_error |-> None ]

FreshReport == Report(None, None, None)

\* A fresh report of another hazard in another city.
OtherReport ==
    [FreshReport EXCEPT !.hazard_type = "Tsunami", !.city = "Chennai",
                        !.state = "Tamil Nadu"]

EarlierCorrelation ==
    remote_correlation(FreshReport, TweetA, LlmAnalysis(Some("High"), Some(90), "Flood"))

ScoredReport ==
    Report(Some(generate_basic_keywords(FreshReport)), Some(<<EarlierCorrelation>>),
           Some(calculate_overall_confidence(<<EarlierCorrelation>>)))

\* The reports the runs are made on; the report of another hazard is run
\* without a classifier key, where the local classification reads it.
AgentReports(with_key) ==
    IF with_key THEN {FreshReport, ScoredReport}
    ELSE {FreshReport, ScoredReport, OtherReport}

InitAgent ==
    /\ deepseek_api_key \in BOOLEAN
    /\ rapidapi_key \in BOOLEAN
    /\ report_data \in AgentReports(deepseek_api_key)
    /\ pc = "keywords"
    /\ keywords_data = None
    /\ keywords_failed = FALSE
    /\ matches = <<>>
    /\ search_log = <<>>
    /\ social_posts = <<>>
    /\ analyzed = <<>>
    /\ clock = 0
    /\ sent_at = <<>>

InitAgentIdle ==
    /\ deepseek_api_key = FALSE
    /\ rapidapi_key = FALSE
    /\ report_data = FreshReport
    /\ pc = "idle"
    /\ keywords_data = None
    /\ keywords_failed = FALSE
    /\ matches = <<>>
    /\ search_log = <<>>
    /\ social_posts = <<>>
    /\ analyzed = <<>>
    /\ clock = 0
    /\ sent_at = <<>>

\* Step 1, _generate_search_keywords: the remote call, or on any exception
\* of it _generate_basic_keywords.  Without a key no request is made.
GenerateSearchKeywords(outcome, response) ==
    /\ pc = "keywords"
    /\ Possible(outcome)
    /\ LET failed == outcome # "ok"
           kd == IF failed THEN generate_basic_keywords(report_data) ELSE response
       IN  /\ keywords_data' = Some(kd)
           /\ keywords_failed' = failed
           /\ report_data' = [report_data EXCEPT !.generated_keywords = Some(kd)]
    /\ pc' = "search"
    /\ UNCHANGED <<deepseek_api_key, rapidapi_key, clock, sent_at, matches, search_log, social_posts,
                   analyzed, correlations, overall_confidence>>

\* Steps 3 and 4 once every post has been classified: the sort at the end
\* of _analyze_correlations, the two assignments and the return.
Complete(corrs) ==
    LET sorted == SortByScoreDesc(corrs)
    IN  /\ correlations' = sorted
        /\ report_data' = [report_data EXCEPT
                               !.social_media_correlations = Some(sorted),
                               !.correlation_confidence =
                                   Some(calculate_overall_confidence(sorted))]
        /\ pc' = "returned"

\* The search step has produced the list posts: classification starts, or,
\* when there is nothing to classify, the run completes at once.
AfterSearch(posts) ==
    /\ social_posts' = posts
    /\ IF posts = <<>>
       THEN Complete(<<>>)
       ELSE pc' = "analyze" /\ UNCHANGED <<report_data, correlations>>

\* Step 2 raises before any request when keywords_data cannot be read; the
\* handler of process_user_report records the error and returns.
SearchRaises ==
    /\ pc = "search"
    /\ ~KeywordsReadable(keywords_data[1])
    /\ report_data' = [report_data EXCEPT !.processing_error = Some("error"),
                                          !.correlation_confidence = Some(0)]
    /\ pc' = "returned"
    /\ UNCHANGED <<deepseek_api_key, rapidapi_key, clock, sent_at, keywords_data, keywords_failed,
                   matches, search_log, social_posts, analyzed, correlations,
                   overall_confidence>>

\* Step 2 without a search key: _fallback_simulated_search.
SimulatedSearch ==
    /\ pc = "search"
    /\ KeywordsReadable(keywords_data[1])
    /\ ~rapidapi_key
    /\ AfterSearch(fallback_simulated_search(search_queries(keywords_data[1]), report_data))
    /\ UNCHANGED <<deepseek_api_key, rapidapi_key, clock, sent_at, keywords_data, keywords_failed,
                   matches, search_log, analyzed, overall_confidence>>

\* Step 2 with a search key and no query to send.
SearchNothing ==
    /\ pc = "search"
    /\ KeywordsReadable(keywords_data[1])
    /\ rapidapi_key
    /\ search_queries(keywords_data[1]) = <<>>
    /\ AfterSearch(unique_matches(matches, {}))
    /\ UNCHANGED <<deepseek_api_key, rapidapi_key, clock, sent_at, keywords_data, keywords_failed,
                   matches, search_log, analyzed, overall_confidence>>

\* Seconds a request to the search API may take before it answers or fails.
RequestDurations == {0, 1}

\* The pause after a query; here only a query that was answered is followed
\* by one.
DelayOnlyAfterAnswer(outcome) == IF outcome = "ok" THEN 2 ELSE 0

\* await asyncio.sleep(2) after _real_twitter_search has returned, which it
\* does on every fate of the request.
DelayAfter(outcome) == 2

\* Step 2 with a search key: the next query goes to the search API.
\* _real_twitter_search returns the parsed tweets on status 200 and [] on a
\* non-200 status or any exception; after the last query the duplicates are
\* removed.
RealTwitterSearch(outcome, batch, duration) ==
    /\ pc = "search"
    /\ KeywordsReadable(keywords_data[1])
    /\ rapidapi_key
    /\ Len(search_log) < Len(FirstThree(search_queries(keywords_data[1])))
    /\ outcome = "ok" \/ batch = <<>>
    /\ LET query_matches == IF outcome = "ok" THEN batch ELSE <<>>
           fetched == matches \o query_matches
           sent == Append(search_log, outcome # "ok")
       IN  /\ matches' = fetched
           /\ search_log' = sent
           /\ sent_at' = Append(sent_at, clock)
           /\ clock' = clock + duration + DelayAfter(outcome)
           /\ IF Len(sent) = Len(FirstThree(search_queries(keywords_data[1])))
              THEN AfterSearch(unique_matches(fetched, {}))
              ELSE UNCHANGED <<social_posts, pc, report_data, correlations>>
    /\ UNCHANGED <<deepseek_api_key, rapidapi_key, keywords_data, keywords_failed,
                   analyzed, overall_confidence>>

\* A failed request to the classifier would be sent a second time.
RemoteCallsWithRetry(outcome) ==
    IF outcome = NotConfigured THEN 0 ELSE IF outcome = "ok" THEN 1 ELSE 2

\* Requests _analyze_single_correlation sends to the classifier for one
\* post: the single session.post of _call_deepseek_api, none without a key.
RemoteCalls(outcome) == IF outcome = NotConfigured THEN 0 ELSE 1

\* Step 3, one turn of the loop of _analyze_correlations:
\* _analyze_single_correlation on the next post (the remote classifier, or
\* _basic_hazard_analysis on any exception), then the score cutoff; after the
\* last post the run completes.
AnalyzeCorrelation(outcome, answer) ==
    /\ pc = "analyze"
    /\ Len(analyzed) < Len(social_posts)
    /\ Possible(outcome)
    /\ LET post == social_posts[Len(analyzed) + 1]
           failed == outcome # "ok"
           correlation == IF failed THEN basic_hazard_analysis(report_data, post)
                          ELSE remote_correlation(report_data, post, answer)
           kept == IF KeepCorrelation(correlation.correlation_score)
                   THEN Append(correlations, correlation) ELSE correlations
           done == Append(analyzed, [ post_id |-> post.id, failed |-> failed,
                                      remote_calls |-> RemoteCalls(outcome),
                                      result |-> correlation ])
       IN  /\ analyzed' = done
           /\ IF Len(done) = Len(social_posts)
              THEN Complete(kept)
              ELSE correlations' = kept /\ UNCHANGED <<report_data, pc>>
    /\ UNCHANGED <<deepseek_api_key, rapidapi_key, clock, sent_at, keywords_data, keywords_failed,
                   matches, search_log, social_posts, overall_confidence>>

(***************************************************************************)
(* ReportAnalysisAgent._basic_hazard_analysis called on its own: any       *)
(* report, any post, at any time.                                          *)
(***************************************************************************)
MaxFallbackCalls == 2

FallbackReports == {FreshReport, OtherReport}

FallbackTexts ==
    { {"Flood", "in", "Mumbai", "Evacuate", "now"},
      {"flooding", "is", "a", "hoax", "#Emergency"},
      {"nice", "weather", "today"},
      {"Tsunami", "warning", "Chennai"},
      {"paani", "rising"},
      {"storm", "help"},
      {"beach", "trapped"},
      {"Water", "heavy", "test drill"},
      {"waterlogged"},
      {"storm", "Water", "rising"},
      {"Evacuate", "urgent"} }

FallbackPosts == {Tweet(id, text) : id \in {"t1", "t2"}, text \in FallbackTexts}

InitFallback == fallback_calls = <<>>

\* One call; analyzed_at (datetime.now()) is the time of the call, later
\* for every later call.
BasicHazardAnalysis(report, post) ==
    /\ Len(fallback_calls) < MaxFallbackCalls
    /\ fallback_calls' = Append(fallback_calls,
                                [ report      |-> report,
                                  post        |-> post,
                                  analyzed_at |-> Len(fallback_calls) + 1,
                                  result      |-> basic_hazard_analysis(report, post) ])

(***************************************************************************)
(* create_report and the background task process_report_async it starts.   *)
(* A request and its task are two threads; each database transaction       *)
(* (INSERT .. commit, UPDATE .. commit) is one step.                        *)
(***************************************************************************)
MaxSubmissions == 2

Submissions == 1..MaxSubmissions

\* correlation_confidence REAL DEFAULT 0.0; the two JSON columns are NULL.
\* status TEXT DEFAULT 'pending'; admin_notes is NULL; updated_at is the
\* time of the INSERT.
DefaultRow ==
    [ correlation_confidence |-> 0, social_media_correlations |-> None,
      generated_keywords |-> None, status |-> "pending", admin_notes |-> None,
      updated_at |-> 0 ]

\* What process_user_report may hand back: a scored report, and the report
\* of its error handler (confidence 0.0, no correlation list).
EnhancedReports ==
    { [ correlation_confidence |-> 920, social_media_correlations |-> Some(<<"t1">>),
        generated_keywords |-> Some("llm") ],
      [ correlation_confidence |-> 0, social_media_correlations |-> Some(<<>>),
        generated_keywords |-> Some("basic") ],
      [ correlation_confidence |-> 0, social_media_correlations |-> None,
        generated_keywords |-> Some("list") ] }

InitCreate ==
    /\ handler_pc = [s \in Submissions |-> "idle"]
    /\ task_pc = [s \in Submissions |-> "none"]
    /\ report_id_of = [s \in Submissions |-> None]
    /\ rows = <<>>
    /\ enhanced = [s \in Submissions |-> None]
    /\ write_log = <<>>
    /\ status_history = <<>>

\* A POST without title, description or hazard type is answered at once.
RejectSubmission(s) ==
    /\ handler_pc[s] = "idle"
    /\ handler_pc' = [handler_pc EXCEPT ![s] = "rejected"]
    /\ UNCHANGED <<task_pc, report_id_of, rows, enhanced, write_log, status_history>>

\* INSERT INTO reports .. ; report_id = cursor.lastrowid; the first history
\* row (old_status NULL, here ""); conn.commit()
InsertReport(s) ==
    /\ handler_pc[s] = "idle"
    /\ rows' = Append(rows, [DefaultRow EXCEPT !.updated_at = now])
    /\ report_id_of' = [report_id_of EXCEPT ![s] = Some(Len(rows) + 1)]
    /\ status_history' = Append(status_history,
                                [ report_id |-> Len(rows) + 1,
                                  old_status |-> "", new_status |-> "pending",
                                  correlation_confidence |-> 0,
                                  social_media_count |-> 0,
                                  change_reason |-> "Initial report submission" ])
    /\ handler_pc' = [handler_pc EXCEPT ![s] = "committed"]
    /\ UNCHANGED <<task_pc, enhanced, write_log>>

\* thread = threading.Thread(target=process_report_async); thread.start()
StartThread(s) ==
    /\ handler_pc[s] = "committed"
    /\ handler_pc' = [handler_pc EXCEPT ![s] = "started"]
    /\ task_pc' = [task_pc EXCEPT ![s] = "running"]
    /\ UNCHANGED <<report_id_of, rows, enhanced, write_log, status_history>>

\* The request would answer only once its task has ended.
ResponseAfterTask(s) ==
    handler_pc[s] = "started" /\ task_pc[s] \in {"done", "failed"}

\* flash(..); return redirect(..) right after thread.start(): no join.
ResponseReady(s) == handler_pc[s] = "started"

Respond(s) ==
    /\ ResponseReady(s)
    /\ handler_pc' = [handler_pc EXCEPT ![s] = "responded"]
    /\ UNCHANGED <<task_pc, report_id_of, rows, enhanced, write_log, status_history>>

\* loop.run_until_complete(process_user_report(report_data)) returns.  The
\* calls it makes may also never return; then this step never happens.
AgentReturns(s, report) ==
    /\ task_pc[s] = "running"
    /\ enhanced' = [enhanced EXCEPT ![s] = Some(report)]
    /\ task_pc' = [task_pc EXCEPT ![s] = "analysed"]
    /\ UNCHANGED <<handler_pc, report_id_of, rows, write_log, status_history>>

\* The row every task writes would be the one inserted last.
LastInsertedRow(s) == Len(rows)

\* WHERE id = report_id: the variable of the request that defined the task.
TargetRow(s) == report_id_of[s][1]

\* UPDATE reports SET correlation_confidence = ?, social_media_correlations
\* = ?, generated_keywords = ? WHERE id = ?; the history row; conn.commit()
WriteResults(s) ==
    /\ task_pc[s] = "analysed"
    /\ LET report == enhanced[s][1]
           found == IF report.social_media_correlations = None THEN <<>>
                    ELSE report.social_media_correlations[1]
           row == [ correlation_confidence    |-> report.correlation_confidence,
                    social_media_correlations |-> Some(found),
                    generated_keywords        |-> report.generated_keywords ]
       IN  /\ rows' = [rows EXCEPT ![TargetRow(s)] =
                           [@ EXCEPT !.correlation_confidence = row.correlation_confidence,
                                     !.social_media_correlations = row.social_media_correlations,
                                     !.generated_keywords = row.generated_keywords]]
           /\ write_log' = Append(write_log,
                                  [ task |-> s, report_id |-> TargetRow(s),
                                    fields |-> DOMAIN row ])
           /\ status_history' = Append(status_history,
                                       [ report_id |-> TargetRow(s),
                                         old_status |-> "pending", new_status |-> "pending",
                                         correlation_confidence |-> report.correlation_confidence,
                                         social_media_count |-> Len(found),
                                         change_reason |-> "AI agent processing" ])
    /\ task_pc' = [task_pc EXCEPT ![s] = "done"]
    /\ UNCHANGED <<handler_pc, report_id_of, enhanced>>

\* except Exception as e: print(..): an exception of the event loop or of
\* the database calls (no connection, database locked) ends the task with
\* nothing committed.
TaskFails(s) ==
    /\ task_pc[s] \in {"running", "analysed"}
    /\ task_pc' = [task_pc EXCEPT ![s] = "failed"]
    /\ UNCHANGED <<handler_pc, report_id_of, rows, enhanced, write_log, status_history>>

(***************************************************************************)
(* admin_update_report_status: one request of an admin on the reports      *)
(* table.  Its SELECT runs in autocommit; the UPDATE, the history row and  *)
(* the commit are one transaction.                                         *)
(***************************************************************************)
MaxTime == 2

\* Reports created, and scored by their tasks, while the admin's request
\* runs.
MaxReportsUnderReview == 1

\* report_id and status of the request; report 2 may not exist yet.
AdminReportIds == {1, 2}
AdminStatuses == {"verified", "pending"}

InitAdminIdle ==
    /\ admin_pc = "none"
    /\ admin_request = None
    /\ admin_seen = None
    /\ admin_log = <<>>
    /\ now = 0

InitAdmin ==
    /\ admin_pc = "idle"
    /\ admin_request = None
    /\ admin_seen = None
    /\ admin_log = <<>>
    /\ now = 0

\* if not report_id or not new_status: return 400
AdminRejects ==
    /\ admin_pc = "idle"
    /\ admin_pc' = "rejected"
    /\ UNCHANGED <<admin_request, admin_seen, admin_log, now, createVars>>

\* SELECT status, correlation_confidence, social_media_correlations FROM
\* reports WHERE id = ?; 404 when there is no such row.
AdminSelect(report_id, new_status, notes) ==
    /\ admin_pc = "idle"
    /\ admin_request' = Some([report_id |-> report_id, status |-> new_status,
                               admin_notes |-> notes])
    /\ IF report_id \in DOMAIN rows
       THEN LET current_report == rows[report_id]
                found == IF current_report.social_media_correlations = None THEN <<>>
                         ELSE current_report.social_media_correlations[1]
            IN  /\ admin_seen' = Some([ old_status |-> current_report.status,
                                        correlation_confidence |->
                                            current_report.correlation_confidence,
                                        social_media_count |-> Len(found) ])
                /\ admin_pc' = "read"
       ELSE /\ admin_seen' = None
            /\ admin_pc' = "not_found"
    /\ UNCHANGED <<admin_log, now, createVars>>

\* The row rebuilt from the column defaults with the new status.
StatusOnDefaultRow(row, request, at) ==
    [DefaultRow EXCEPT !.status = request.status,
                       !.admin_notes = Some(request.admin_notes),
                       !.updated_at = at]

\* UPDATE reports SET status = ?, admin_notes = ?, updated_at =
\* CURRENT_TIMESTAMP WHERE id = ?
StatusUpdatedRow(row, request, at) ==
    [row EXCEPT !.status = request.status,
                !.admin_notes = Some(request.admin_notes),
                !.updated_at = at]

\* The UPDATE, the history row when the status changed, conn.commit().
AdminUpdate ==
    /\ admin_pc = "read"
    /\ LET request == admin_request[1]
           seen == admin_seen[1]
       IN  /\ rows' = [rows EXCEPT ![request.report_id] = StatusUpdatedRow(@, request, now)]
           /\ status_history' =
                  IF seen.old_status # request.status
                  THEN Append(status_history,
                              [ report_id |-> request.report_id,
                                old_status |-> seen.old_status,
                                new_status |-> request.status,
                                correlation_confidence |-> seen.correlation_confidence,
                                social_media_count |-> seen.social_media_count,
                                change_reason |-> "Admin update" ])
                  ELSE status_history
    /\ admin_log' = Append(admin_log, [report_id |-> admin_request[1].report_id, at |-> now])
    /\ admin_pc' = "done"
    /\ UNCHANGED <<admin_request, admin_seen, now, handler_pc, task_pc, report_id_of,
                   enhanced, write_log>>

\* A database call of the request raises (database is locked): nothing is
\* committed.
AdminFails ==
    /\ admin_pc = "read"
    /\ admin_pc' = "failed"
    /\ UNCHANGED <<admin_request, admin_seen, admin_log, now, createVars>>

\* A second passes.
Tick ==
    /\ now < MaxTime
    /\ now' = now + 1
    /\ UNCHANGED <<admin_pc, admin_request, admin_seen, admin_log>>

(***************************************************************************)
(* The callers: create_report inserts a row; the dashboards read the rows  *)
(* and cluster them.                                                       *)
(***************************************************************************)
InitCluster ==
    /\ reports = <<>>
    /\ radius_km = 0
    /\ clusters = <<>>
    /\ prev_radius = 0
    /\ prev_clusters = <<>>
    /\ calls = 0

\* create_report: INSERT INTO reports; the row id and the creation time grow
\* with every insert, so the new row is the first one a dashboard reads.
SubmitReport(c) ==
    /\ calls = 0
    /\ Len(reports) < MaxReports
    /\ reports' = << [ id         |-> Len(reports) + 1,
                       latitude   |-> c[1],
                       longitude  |-> c[2],
                       created_at |-> Len(reports) + 1 ] >> \o reports
    /\ UNCHANGED <<radius_km, clusters, prev_radius, prev_clusters, calls>>

\* A dashboard clusters the rows it read; the previous answer is kept so
\* that two answers for the same rows can be compared.
ClusterReports(r) ==
    /\ calls < MaxCalls
    /\ clusters' = cluster_reports_by_location(reports, r)
    /\ radius_km' = r
    /\ prev_clusters' = clusters
    /\ prev_radius' = radius_km
    /\ calls' = calls + 1
    /\ UNCHANGED reports

(***************************************************************************)
(* AggregationService.detect_hotspots                                      *)
(***************************************************************************)
MaxPosts == 4

\* Thresholds HOTSPOT_POST_THRESHOLD may configure besides the default.
Thresholds == {1, 2, 3}

DefaultThreshold == 20

Mumbai == [city |-> Some("Mumbai"), state |-> Some("Maharashtra")]

Post(hz, mc, loc, ht, urg) ==
    [ is_hazard |-> hz, meets_confidence_threshold |-> mc,
      inferred_location |-> loc, hazard_type |-> ht, urgency |-> urg ]

\* The kinds of analysed post the model feeds in: flagged posts of one city
\* with every urgency, a second hazard type, a post without a location, a
\* post whose location has no city, and posts lacking one of the two flags.
PostKinds ==
    { Post(TRUE, TRUE, Some(Mumbai), "Flood", "Low"),
      Post(TRUE, TRUE, Some(Mumbai), "Flood", "Medium"),
      Post(TRUE, TRUE, Some(Mumbai), "Flood", "High"),
      Post(TRUE, TRUE, Some(Mumbai), "Tsunami", "High"),
      Post(TRUE, TRUE, None, "Flood", "High"),
      Post(TRUE, TRUE, Some([city |-> None, state |-> Some("Maharashtra")]), "Flood", "Medium"),
      Post(TRUE, FALSE, Some(Mumbai), "Flood", "High"),
      Post(FALSE, TRUE, Some(Mumbai), "Flood", "High") }

\* hazard_posts = [post for post in analyzed_posts if is_hazard and
\*                 meets_confidence_threshold]
IsHazardPost(post) == post.is_hazard /\ post.meets_confidence_threshold

\* The location key of _group_posts_by_location: f"{city}, {state}" with
\* 'Unknown' for a missing part, "Unknown Location" without a location.
LocationKey(post) ==
    IF post.inferred_location = None THEN "Unknown Location"
    ELSE LET location == post.inferred_location[1]
             city  == IF location.city = None THEN "Unknown" ELSE location.city[1]
             state == IF location.state = None THEN "Unknown" ELSE location.state[1]
         IN  city \o ", " \o state

HazardKey(post) == post.hazard_type

LocationKeys(posts) == [k \in DOMAIN posts |-> LocationKey(posts[k])]
HazardKeys(posts) == [k \in DOMAIN posts |-> HazardKey(posts[k])]

\* Keys of a defaultdict(list) filled in one pass, in insertion order.
RECURSIVE KeysInOrder(_, _)
KeysInOrder(keys, seen) ==
    IF keys = <<>> THEN <<>>
    ELSE IF Head(keys) \in seen
         THEN KeysInOrder(Tail(keys), seen)
         ELSE <<Head(keys)>> \o KeysInOrder(Tail(keys), seen \cup {Head(keys)})

\* The list the defaultdict holds under key k: the posts whose key is k, in
\* order (keys is the list of the posts' keys).
RECURSIVE GroupUnder(_, _, _)
GroupUnder(posts, keys, k) ==
    IF posts = <<>> THEN <<>>
    ELSE IF Head(keys) = k
         THEN <<Head(posts)>> \o GroupUnder(Tail(posts), Tail(keys), k)
         ELSE GroupUnder(Tail(posts), Tail(keys), k)

CountUrgency(posts, u) == Cardinality({k \in DOMAIN posts : posts[k].urgency = u})

\* overall_urgency of _create_hotspot.  The source compares the counts with
\* post_count * 0.3 and post_count * 0.4 in floating point; for every
\* post_count up to 2000 these comparisons agree with the exact ones below.
OverallUrgencyAlwaysLow(high, medium, post_count) == "Low"

OverallUrgency(high, medium, post_count) ==
    IF 10 * high >= 3 * post_count THEN "High"
    ELSE IF 10 * medium >= 4 * post_count THEN "Medium"
    ELSE "Low"

\* _create_hotspot (the id, the timestamps, the mean confidence and the
\* sample of posts do not bear on the grouping and are left out).
create_hotspot(location_key, hazard_type, posts) ==
    LET post_count == Len(posts)
        urgency_counts == [u \in {"Low", "Medium", "High"} |-> CountUrgency(posts, u)]
    IN  [ location          |-> location_key,
          hazard_type       |-> hazard_type,
          post_count        |-> post_count,
          urgency_breakdown |-> urgency_counts,
          overall_urgency   |-> OverallUrgency(urgency_counts["High"],
                                               urgency_counts["Medium"], post_count),
          status            |-> "pending_validation" ]

AnySize(n, threshold) == n >= 1

ReachesThreshold(n, threshold) == n >= threshold

\* The loop over the hazard-type groups of one location.
RECURSIVE HazardGroupHotspots(_, _, _, _)
HazardGroupHotspots(location_key, posts, hazard_types, threshold) ==
    IF hazard_types = <<>> THEN <<>>
    ELSE LET hazard_posts == GroupUnder(posts, HazardKeys(posts), Head(hazard_types))
             rest == HazardGroupHotspots(location_key, posts, Tail(hazard_types), threshold)
         IN  IF ReachesThreshold(Len(hazard_posts), threshold)
             THEN <<create_hotspot(location_key, Head(hazard_types), hazard_posts)>> \o rest
             ELSE rest

detect_location_hotspots(location_key, posts, threshold) ==
    IF Len(posts) < threshold THEN <<>>
    ELSE HazardGroupHotspots(location_key, posts,
                             KeysInOrder(HazardKeys(posts), {}), threshold)

\* The loop over location_groups.items().
RECURSIVE LocationGroupHotspots(_, _, _)
LocationGroupHotspots(hazard_posts, location_keys, threshold) ==
    IF location_keys = <<>> THEN <<>>
    ELSE detect_location_hotspots(Head(location_keys),
                                  GroupUnder(hazard_posts, LocationKeys(hazard_posts), Head(location_keys)),
                                  threshold)
         \o LocationGroupHotspots(hazard_posts, Tail(location_keys), threshold)

detect_hotspots(posts, threshold) ==
    LET hazard_posts == SelectSeq(posts, IsHazardPost)
    IN  IF hazard_posts = <<>> THEN <<>>
        ELSE LocationGroupHotspots(hazard_posts,
                                   KeysInOrder(LocationKeys(hazard_posts), {}), threshold)

\* The batch of the worked example: 25 Flood posts of one city, 20 of them
\* High, the other five of urgency u, under the default threshold.
ExampleBatch(u) ==
    [k \in 1..25 |-> Post(TRUE, TRUE, Some(Mumbai), "Flood", IF k <= 20 THEN "High" ELSE u)]

InitHotspot ==
    /\ hotspots = <<>>
    /\ detected = FALSE
    /\ \/ /\ hotspot_post_threshold \in Thresholds
          /\ analyzed_posts = <<>>
       \/ /\ hotspot_post_threshold = DefaultThreshold
          /\ analyzed_posts \in {ExampleBatch(u) : u \in {"Low", "Medium"}}

InitHotspotIdle ==
    /\ analyzed_posts = <<>>
    /\ hotspot_post_threshold = 0
    /\ hotspots = <<>>
    /\ detected = FALSE

\* The pipeline analyses one more post of the batch.
AnalyzePost(kind) ==
    /\ ~detected
    /\ Len(analyzed_posts) < MaxPosts
    /\ analyzed_posts' = Append(analyzed_posts, kind)
    /\ UNCHANGED <<hotspot_post_threshold, hotspots, detected>>

\* main.py / agent_runner.py: hotspots = await detect_hotspots(analyzed_posts)
DetectHotspots ==
    /\ ~detected
    /\ hotspots' = detect_hotspots(analyzed_posts, hotspot_post_threshold)
    /\ detected' = TRUE
    /\ UNCHANGED <<analyzed_posts, hotspot_post_threshold>>

(***************************************************************************)
(* AggregationService._extract_location_info, as _create_hotspot calls it  *)
(* on the posts of one hotspot: posts of one location key and one hazard   *)
(* type, in the order of the batch.                                        *)
(***************************************************************************)
MaxGroupPosts == 4
MaxRuns == 2

\* Two locations whose f-string key is the same, "New Delhi, Delhi, India".
NewDelhiInDelhi == [city |-> Some("New Delhi, Delhi"), state |-> Some("India")]
NewDelhi == [city |-> Some("New Delhi"), state |-> Some("Delhi, India")]

\* inferred_location of the posts the model feeds in; None is a post
\* without a location.  None of them carries coordinates.
GroupLocations ==
    { Some(Mumbai), Some([city |-> None, state |-> Some("Maharashtra")]),
      Some(NewDelhiInDelhi), Some(NewDelhi), None }

\* locations = [post['inferred_location'] for the posts that have one]
RECURSIVE LocationsOf(_)
LocationsOf(posts) ==
    IF posts = <<>> THEN <<>>
    ELSE (IF Head(posts).inferred_location = None THEN <<>>
          ELSE <<Head(posts).inferred_location[1]>>) \o LocationsOf(Tail(posts))

\* [loc.get('city') for loc in locations if loc.get('city')], and the same
\* for 'state'.
RECURSIVE TruthyValues(_)
TruthyValues(values) ==
    IF values = <<>> THEN <<>>
    ELSE (IF Head(values) = None \/ Head(values)[1] = "" THEN <<>> ELSE <<Head(values)[1]>>)
         \o TruthyValues(Tail(values))

\* values.count(v)
CountOf(values, v) == Cardinality({k \in DOMAIN values : values[k] = v})

\* max(set(values), key=values.count) if values else None.  max returns
\* the first of the most frequent values in the iteration order of the
\* set, and the iteration order of a set of strings follows their hashes,
\* which are salted per process: each of the most frequent values can be
\* the one returned.
most_common(values) ==
    IF values = <<>> THEN {None}
    ELSE {Some(values[k]) : k \in {j \in DOMAIN values :
              \A i \in DOMAIN values : CountOf(values, values[j]) >= CountOf(values, values[i])}}

\* The descriptors a call of _extract_location_info can return; {} is the
\* empty function <<>>.
extract_location_info(posts) ==
    LET locations == LocationsOf(posts)
        cities == TruthyValues([k \in DOMAIN locations |-> locations[k].city])
        states == TruthyValues([k \in DOMAIN locations |-> locations[k].state])
    IN  IF locations = <<>> THEN {<<>>}
        ELSE {[ city |-> c, state |-> st, country |-> "India", centroid |-> None,
                coordinate_count |-> 0, total_location_references |-> Len(locations) ] :
                  c \in most_common(cities), st \in most_common(states)}

InitLocationInfo ==
    /\ group_posts = <<>>
    /\ location_runs = <<>>

\* One more post of the batch falls into the group: its location key is
\* that of the group.
ContributePost(location) ==
    LET post == Post(TRUE, TRUE, location, "Flood", "High")
    IN  /\ location_runs = <<>>
        /\ Len(group_posts) < MaxGroupPosts
        /\ group_posts # <<>> => LocationKey(post) = LocationKey(group_posts[1])
        /\ group_posts' = Append(group_posts, post)
        /\ UNCHANGED location_runs

\* location_info = self._extract_location_info(posts), in one run of the
\* service on the batch.
ExtractLocationInfo ==
    /\ group_posts # <<>>
    /\ Len(location_runs) < MaxRuns
    /\ \E info \in extract_location_info(group_posts) :
           location_runs' = Append(location_runs, info)
    /\ UNCHANGED group_posts

(***************************************************************************)
(* Specifications: one per entry point.  The variables of the entry points *)
(* a specification does not exercise stay at their initial values.         *)
(***************************************************************************)
ClusterInit == InitCluster /\ InitHotspotIdle /\ InitNormalizeIdle /\ InitConfidence /\ InitAgentIdle /\ InitFallback /\ InitCreate /\ InitLocationInfo /\ InitAdminIdle

ClusterNext ==
    \/ \E c \in Coords : SubmitReport(c) /\ UNCHANGED <<hotspotVars, normalizeVars, confidenceVars, agentVars, fallbackVars, createVars, locationVars, adminVars>>
    \/ \E r \in Radii : ClusterReports(r) /\ UNCHANGED <<hotspotVars, normalizeVars, confidenceVars, agentVars, fallbackVars, createVars, locationVars, adminVars>>

SpecCluster == ClusterInit /\ [][ClusterNext]_vars

HotspotInit == InitHotspot /\ InitCluster /\ InitNormalizeIdle /\ InitConfidence /\ InitAgentIdle /\ InitFallback /\ InitCreate /\ InitLocationInfo /\ InitAdminIdle

HotspotNext ==
    \/ \E kind \in PostKinds : AnalyzePost(kind) /\ UNCHANGED <<clusterVars, normalizeVars, confidenceVars, agentVars, fallbackVars, createVars, locationVars, adminVars>>
    \/ DetectHotspots /\ UNCHANGED <<clusterVars, normalizeVars, confidenceVars, agentVars, fallbackVars, createVars, locationVars, adminVars>>

SpecHotspot == HotspotInit /\ [][HotspotNext]_vars

NormalizeInit == InitNormalize /\ InitCluster /\ InitHotspotIdle /\ InitConfidence /\ InitAgentIdle /\ InitFallback /\ InitCreate /\ InitLocationInfo /\ InitAdminIdle

NormalizeNext ==
    NormalizeUrgency /\ UNCHANGED <<clusterVars, hotspotVars, confidenceVars, agentVars, fallbackVars, createVars, locationVars, adminVars>>

SpecNormalize == NormalizeInit /\ [][NormalizeNext]_vars

ConfidenceInit == InitConfidence /\ InitCluster /\ InitHotspotIdle /\ InitNormalizeIdle /\ InitAgentIdle /\ InitFallback /\ InitCreate /\ InitLocationInfo /\ InitAdminIdle

ConfidenceNext ==
    \/ \E c \in CorrelationKinds :
           AddCorrelation(c) /\ UNCHANGED <<clusterVars, hotspotVars, normalizeVars, agentVars, fallbackVars, createVars, locationVars, adminVars>>
    \/ CalculateOverallConfidence /\ UNCHANGED <<clusterVars, hotspotVars, normalizeVars, agentVars, fallbackVars, createVars, locationVars, adminVars>>

SpecConfidence == ConfidenceInit /\ [][ConfidenceNext]_vars

AgentInit == InitAgent /\ InitCluster /\ InitHotspotIdle /\ InitNormalizeIdle /\ InitConfidence /\ InitFallback /\ InitCreate /\ InitLocationInfo /\ InitAdminIdle

AgentNext ==
    \/ \E outcome \in HttpOutcomes \cup {NotConfigured}, response \in KeywordResponses :
           GenerateSearchKeywords(outcome, response)
               /\ UNCHANGED <<clusterVars, hotspotVars, normalizeVars, fallbackVars, createVars, locationVars, adminVars>>
    \/ SearchRaises /\ UNCHANGED <<clusterVars, hotspotVars, normalizeVars, fallbackVars, createVars, locationVars, adminVars>>
    \/ SimulatedSearch /\ UNCHANGED <<clusterVars, hotspotVars, normalizeVars, fallbackVars, createVars, locationVars, adminVars>>
    \/ SearchNothing /\ UNCHANGED <<clusterVars, hotspotVars, normalizeVars, fallbackVars, createVars, locationVars, adminVars>>
    \/ \E outcome \in HttpOutcomes, batch \in TweetBatches, duration \in RequestDurations :
           RealTwitterSearch(outcome, batch, duration)
               /\ UNCHANGED <<clusterVars, hotspotVars, normalizeVars, fallbackVars, createVars, locationVars, adminVars>>
    \/ \E outcome \in ClassifierOutcomes \cup {NotConfigured}, answer \in LlmAnalyses :
           AnalyzeCorrelation(outcome, answer)
               /\ UNCHANGED <<clusterVars, hotspotVars, normalizeVars, fallbackVars, createVars, locationVars, adminVars>>

SpecAgent == AgentInit /\ [][AgentNext]_vars

FallbackInit ==
    InitFallback /\ InitCluster /\ InitHotspotIdle /\ InitNormalizeIdle /\ InitConfidence
        /\ InitAgentIdle /\ InitCreate /\ InitLocationInfo /\ InitAdminIdle

FallbackNext ==
    \E report \in FallbackReports, post \in FallbackPosts :
        BasicHazardAnalysis(report, post)
            /\ UNCHANGED <<clusterVars, hotspotVars, normalizeVars, confidenceVars, agentVars, createVars, locationVars, adminVars>>

SpecFallback == FallbackInit /\ [][FallbackNext]_vars

CreateOthers == <<clusterVars, hotspotVars, normalizeVars, confidenceVars, agentVars,
                  fallbackVars, locationVars, adminVars>>

CreateInit ==
    InitCreate /\ InitCluster /\ InitHotspotIdle /\ InitNormalizeIdle /\ InitConfidence
        /\ InitAgentIdle /\ InitFallback /\ InitLocationInfo /\ InitAdminIdle

\* The steps of the request of submission s, and those of its task.
HandlerStep(s) ==
    \/ RejectSubmission(s) /\ UNCHANGED CreateOthers
    \/ InsertReport(s) /\ UNCHANGED CreateOthers
    \/ StartThread(s) /\ UNCHANGED CreateOthers
    \/ Respond(s) /\ UNCHANGED CreateOthers

TaskStep(s) ==
    \/ \E report \in EnhancedReports : AgentReturns(s, report) /\ UNCHANGED CreateOthers
    \/ WriteResults(s) /\ UNCHANGED CreateOthers
    \/ TaskFails(s) /\ UNCHANGED CreateOthers

CreateNext == \E s \in Submissions : HandlerStep(s) \/ TaskStep(s)

SpecCreate == CreateInit /\ [][CreateNext]_vars

\* A request that has been received runs to its end; nothing is assumed of
\* the tasks, which wait on remote services.
SpecCreateFair == SpecCreate /\ \A s \in Submissions : WF_vars(HandlerStep(s))

LocationInfoOthers == <<clusterVars, hotspotVars, normalizeVars, confidenceVars, agentVars,
                        fallbackVars, createVars, adminVars>>

LocationInfoInit ==
    InitLocationInfo /\ InitCluster /\ InitHotspotIdle /\ InitNormalizeIdle /\ InitConfidence
        /\ InitAgentIdle /\ InitFallback /\ InitCreate /\ InitAdminIdle

LocationInfoNext ==
    \/ \E location \in GroupLocations : ContributePost(location) /\ UNCHANGED LocationInfoOthers
    \/ ExtractLocationInfo /\ UNCHANGED LocationInfoOthers

SpecLocationInfo == LocationInfoInit /\ [][LocationInfoNext]_vars

\* The requests that create reports, their tasks, and one request of an
\* admin, in any interleaving, while time passes.
AdminOthers == <<clusterVars, hotspotVars, normalizeVars, confidenceVars, agentVars,
                 fallbackVars, locationVars>>

AdminInit ==
    InitCreate /\ InitAdmin /\ InitCluster /\ InitHotspotIdle /\ InitNormalizeIdle
        /\ InitConfidence /\ InitAgentIdle /\ InitFallback /\ InitLocationInfo

AdminStep ==
    \/ AdminRejects /\ UNCHANGED AdminOthers
    \/ \E id \in AdminReportIds, status \in AdminStatuses :
           AdminSelect(id, status, "checked") /\ UNCHANGED AdminOthers
    \/ AdminUpdate /\ UNCHANGED AdminOthers
    \/ AdminFails /\ UNCHANGED AdminOthers

AdminNext ==
    \/ \E s \in 1..MaxReportsUnderReview : HandlerStep(s) \/ TaskStep(s)
    \/ AdminStep
    \/ Tick /\ UNCHANGED <<AdminOthers, createVars>>

SpecAdmin == AdminInit /\ [][AdminNext]_vars

(***************************************************************************)
(* Properties of cluster_reports_by_location (checked under SpecCluster).  *)
(***************************************************************************)
\* Ids of the members of a list of clusters, one entry per membership.
RECURSIVE MemberIds(_)
MemberIds(cs) ==
    IF cs = <<>> THEN <<>>
    ELSE [k \in DOMAIN Head(cs).members |-> Head(cs).members[k].id] \o MemberIds(Tail(cs))

\* Number of clusters of cs the report with this id is a member of.
Memberships(cs, id) == Cardinality({k \in DOMAIN MemberIds(cs) : MemberIds(cs)[k] = id})

CarriesCoordinates(r) == r.latitude # None /\ r.longitude # None

\* C1: after a call, every report that carries a latitude and a longitude
\* (any numeric values, 0 included) is a member of exactly one cluster, and
\* a report without coordinates is a member of none.
C1_EveryGeotaggedReportInExactlyOneCluster ==
    calls > 0 =>
        \A i \in DOMAIN reports :
            Memberships(clusters, reports[i].id) =
                (IF CarriesCoordinates(reports[i]) THEN 1 ELSE 0)

\* Position of a report in the list handed to the function.
PosOf(id) == CHOOSE k \in DOMAIN reports : reports[k].id = id

\* The cluster opened first: the one that holds the earliest member, in
\* input order, of the whole output (its seed is the first report kept).
FirstOpened(cs) ==
    CHOOSE k \in DOMAIN cs :
        \A m \in DOMAIN MemberIds(cs) : PosOf(cs[k].members[1].id) <= PosOf(MemberIds(cs)[m])
FirstOpenedIds(cs) ==
    {cs[FirstOpened(cs)].members[k].id : k \in DOMAIN cs[FirstOpened(cs)].members}

\* C2 as stated: for the same reports and radii r1 <= r2, the call with r2
\* returns at most as many clusters as the call with r1.
C2_ClusterCountNonIncreasingInRadius ==
    (calls >= 2 /\ prev_radius <= radius_km) =>
        Len(clusters) <= Len(prev_clusters)

\* C2 amended: for the same reports and radii r1 <= r2, every member of the
\* first-opened cluster under r1 is a member of the first-opened cluster
\* under r2 (the number of clusters itself may grow).
C2_FirstClusterGrowsWithRadius ==
    (calls >= 2 /\ prev_radius <= radius_km /\ prev_clusters # <<>> /\ clusters # <<>>) =>
        FirstOpenedIds(prev_clusters) \subseteq FirstOpenedIds(clusters)

\* Two calls on the same reports where the larger radius enlarged the first
\* cluster and yet produced more clusters.
C2_Witness ==
    /\ calls >= 2 /\ prev_radius < radius_km
    /\ prev_clusters # <<>> /\ clusters # <<>>
    /\ FirstOpenedIds(prev_clusters) # FirstOpenedIds(clusters)
    /\ Len(clusters) > Len(prev_clusters)

\* C10: the returned list is ordered by member count descending, and each
\* cluster's count is the length of its member list.
C10_ClustersSortedByCountDescending ==
    calls > 0 =>
        /\ \A k \in 1..(Len(clusters) - 1) : clusters[k].count >= clusters[k + 1].count
        /\ \A k \in DOMAIN clusters : clusters[k].count = Len(clusters[k].members)

\* A returned list whose largest cluster was opened after a smaller one: the
\* sort moved it to the front.
C10_Witness ==
    /\ calls > 0 /\ Len(clusters) >= 2
    /\ clusters[1].count > clusters[2].count
    /\ PosOf(clusters[1].members[1].id) > PosOf(clusters[2].members[1].id)

\* Distance between two reports that carry coordinates.
ReportDistance(a, b) ==
    haversine_distance(a.latitude[1], a.longitude[1], b.latitude[1], b.longitude[1])

\* No other report that carries coordinates lies within the radius of i.
IsolatedAt(i, radius) ==
    /\ CarriesCoordinates(reports[i])
    /\ \A j \in DOMAIN reports :
           (j # i /\ CarriesCoordinates(reports[j])) =>
               ReportDistance(reports[i], reports[j]) > radius

\* The cluster is the singleton of report r, centred on r's own coordinates.
IsSingletonOf(c, r) ==
    /\ c.count = 1
    /\ Len(c.members) = 1 /\ c.members[1].id = r.id
    /\ c.centroid_lat.den = 1 /\ Some(c.centroid_lat.num) = r.latitude
    /\ c.centroid_lng.den = 1 /\ Some(c.centroid_lng.num) = r.longitude

\* The example of three reports: two 2.2 km apart and a third more than
\* 4 km from both, in any input order.
IsExampleTriple ==
    /\ Len(reports) = 3
    /\ {<<reports[k].latitude, reports[k].longitude>> : k \in DOMAIN reports}
           = { <<Some(1), Some(1)>>, <<Some(2), Some(1)>>, <<Some(4), Some(1)>> }

\* C11: the function returns an empty list for empty input; a report that
\* carries coordinates and has no other geotagged report within the radius
\* forms a cluster of count 1 whose centroid is its own coordinates; the
\* example of three reports at radius 4 km gives one cluster of size 2 and
\* one singleton.
C11_EmptyInputAndSingletonCluster ==
    calls > 0 =>
        /\ reports = <<>> => clusters = <<>>
        /\ \A i \in DOMAIN reports :
               IsolatedAt(i, radius_km) =>
                   \E k \in DOMAIN clusters : IsSingletonOf(clusters[k], reports[i])
        /\ (IsExampleTriple /\ radius_km = 4000) =>
               /\ Len(clusters) = 2
               /\ clusters[1].count = 2 /\ clusters[2].count = 1

\* The report with this id is a member of the cluster.
InCluster(c, id) == \E k \in DOMAIN c.members : c.members[k].id = id

\* Input position of the seed (first member) of a cluster.
SeedPos(c) == PosOf(c.members[1].id)

\* Report i was not yet assigned when the seed of cluster c was visited: it
\* is in no cluster opened before c.
UnassignedAt(i, c) ==
    \A d \in DOMAIN clusters :
        SeedPos(clusters[d]) < SeedPos(c) => ~InCluster(clusters[d], reports[i].id)

SeedsNear(i) ==
    {d \in DOMAIN clusters :
         ReportDistance(clusters[d].members[1], reports[i]) <= radius_km}

\* C29: in the output of cluster_reports_by_location the seeds of any two
\* distinct clusters are farther than the radius from each other, and every
\* report that carries coordinates is a member of the cluster of the
\* earliest seed, in input order, that lies within the radius of it, and of
\* no other cluster.
C29_SeedsApartAndEarliestSeedWins ==
    calls > 0 =>
        /\ \A d, e \in DOMAIN clusters :
               d # e => ReportDistance(clusters[d].members[1], clusters[e].members[1])
                            > radius_km
        /\ \A i \in DOMAIN reports :
               (CarriesCoordinates(reports[i]) /\ SeedsNear(i) # {}) =>
                   \A d \in DOMAIN clusters :
                       InCluster(clusters[d], reports[i].id)
                           <=> /\ d \in SeedsNear(i)
                               /\ \A e \in SeedsNear(i) :
                                      SeedPos(clusters[d]) <= SeedPos(clusters[e])

(***************************************************************************)
(* Properties of detect_hotspots (checked under SpecHotspot).              *)
(***************************************************************************)
\* Positions of the posts of analyzed_posts that carry both flags and
\* belong to the (location key, hazard type) group.
GroupOf(location_key, hazard_type) ==
    {k \in DOMAIN analyzed_posts :
        /\ analyzed_posts[k].is_hazard
        /\ analyzed_posts[k].meets_confidence_threshold
        /\ LocationKey(analyzed_posts[k]) = location_key
        /\ analyzed_posts[k].hazard_type = hazard_type}

HotspotsOf(location_key, hazard_type) ==
    {k \in DOMAIN hotspots :
        hotspots[k].location = location_key /\ hotspots[k].hazard_type = hazard_type}

\* Every (location key, hazard type) pair that occurs among the posts or
\* among the emitted hotspots.
GroupKeys ==
    {<<LocationKey(analyzed_posts[k]), analyzed_posts[k].hazard_type>> : k \in DOMAIN analyzed_posts}
    \cup {<<hotspots[k].location, hotspots[k].hazard_type>> : k \in DOMAIN hotspots}

\* C8: detect_hotspots emits exactly one hotspot for each (location key,
\* hazard type) group of posts flagged is_hazard and
\* meets_confidence_threshold whose size is >= the threshold, with
\* post_count equal to the group's size, and none for a smaller group; posts
\* lacking either flag are not counted.
C8_OneHotspotPerGroupAtThreshold ==
    detected =>
        \A g \in GroupKeys :
            LET size == Cardinality(GroupOf(g[1], g[2]))
            IN  IF size >= hotspot_post_threshold
                THEN /\ Cardinality(HotspotsOf(g[1], g[2])) = 1
                     /\ \A k \in HotspotsOf(g[1], g[2]) : hotspots[k].post_count = size
                ELSE HotspotsOf(g[1], g[2]) = {}

\* A batch in which one group reached the threshold, another flagged group
\* of the same location stayed below it, and a post lacked a flag.
C8_Witness ==
    /\ detected
    /\ Len(hotspots) = 1
    /\ hotspots[1].post_count = hotspot_post_threshold
    /\ \E k \in DOMAIN analyzed_posts :
           /\ IsHazardPost(analyzed_posts[k])
           /\ LocationKey(analyzed_posts[k]) = hotspots[1].location
           /\ analyzed_posts[k].hazard_type # hotspots[1].hazard_type
    /\ \E k \in DOMAIN analyzed_posts : ~analyzed_posts[k].is_hazard

UrgentIn(group, u) == Cardinality({k \in group : analyzed_posts[k].urgency = u})

IsExampleBatch ==
    /\ hotspot_post_threshold = 20
    /\ Len(analyzed_posts) = 25
    /\ \A k \in 1..25 : /\ IsHazardPost(analyzed_posts[k])
                        /\ analyzed_posts[k].hazard_type = "Flood"
                        /\ LocationKey(analyzed_posts[k]) = "Mumbai, Maharashtra"
    /\ Cardinality({k \in 1..25 : analyzed_posts[k].urgency = "High"}) = 20

\* C9: for every hotspot with n contributing posts, overall_urgency is High
\* if the High posts are >= 30% of n, otherwise Medium if the Medium posts
\* are >= 40% of n, otherwise Low; and 25 Flood posts of one location with
\* 20 High under threshold 20 give exactly one hotspot, of urgency High.
C9_OverallUrgencyRollup ==
    detected =>
        /\ \A k \in DOMAIN hotspots :
               LET group == GroupOf(hotspots[k].location, hotspots[k].hazard_type)
                   n == Cardinality(group)
               IN  hotspots[k].overall_urgency =
                       (IF 10 * UrgentIn(group, "High") >= 3 * n THEN "High"
                        ELSE IF 10 * UrgentIn(group, "Medium") >= 4 * n THEN "Medium"
                        ELSE "Low")
        /\ IsExampleBatch =>
               (Len(hotspots) = 1 /\ hotspots[1].overall_urgency = "High")

\* The worked example has been run and produced its hotspot.
C9_Witness ==
    detected /\ IsExampleBatch /\ Len(hotspots) = 1 /\ hotspots[1].post_count = 25

(***************************************************************************)
(* Properties of _normalize_urgency (checked under SpecNormalize).         *)
(***************************************************************************)
DeEscalationWords == {"rumor", "hoax", "false alarm", "fake", "test drill", "drill"}
StrongWords == {"Evacuate", "collapsed", "#Emergency"}

\* C5: _normalize_urgency returns Low for every text that contains a
\* de-escalation cue, for every input urgency and every confidence, even
\* when the text also contains strong emergency cues.
C5_DeEscalationCueForcesLow ==
    (normalized_urgency # None /\ post_text \cap DeEscalationWords # {}) =>
        normalized_urgency = Some("Low")

\* A call on a text with a hoax cue and a strong cue, classifier urgency
\* High and confidence 0.9, that returned Low.
C5_Witness ==
    /\ normalized_urgency = Some("Low")
    /\ "hoax" \in post_text /\ post_text \cap StrongWords # {}
    /\ urgency = Some("High") /\ confidence = 90

\* Words of the texts that carry a moderate cue.
ModerateWords == {"rising"}

C25_HighOnlyWithStrongCueAndConfidence ==
    normalized_urgency = Some("High") =>
        /\ AnyIn(strong_cues, LowerText(post_text))
        /\ confidence >= 70

(***************************************************************************)
(* Properties of _calculate_overall_confidence (checked under              *)
(* SpecConfidence).                                                        *)
(***************************************************************************)
\* C3: _calculate_overall_confidence returns 0.0 for an empty list and, for
\* every non-empty list, a value in [0, 0.95]; it never returns 1.0.
C3_OverallConfidenceWithinCeiling ==
    overall_confidence # None =>
        /\ correlations = <<>> => overall_confidence[1] = 0
        /\ overall_confidence[1] >= 0
        /\ overall_confidence[1] <= 950
        /\ overall_confidence[1] # 1000

\* Three results of score 1.0 and confidence 1.0, whose weighted average
\* alone is 1.0, have been aggregated.
C3_Witness ==
    /\ overall_confidence # None
    /\ Len(correlations) = 3
    /\ \A k \in DOMAIN correlations :
           correlations[k].correlation_score = 100 /\ correlations[k].confidence = 100
    /\ overall_confidence[1] > 0

\* Number of results of the list that satisfy each condition of the
\* reference computation.
HighScoreCount == Cardinality({k \in DOMAIN correlations : correlations[k].correlation_score > 70})
LocationMatchCount ==
    Cardinality({k \in DOMAIN correlations : MentionsLocation(correlations[k].matching_elements)})
HazardMatchCount ==
    Cardinality({k \in DOMAIN correlations : MentionsHazard(correlations[k].matching_elements)})
HighUrgencyCount == Cardinality({k \in DOMAIN correlations : correlations[k].urgency = "High"})
MediumUrgencyCount == Cardinality({k \in DOMAIN correlations : correlations[k].urgency = "Medium"})
RecentCount == Cardinality({k \in DOMAIN correlations : is_recent_post(correlations[k].post_text)})

\* sum(score * confidence) and sum(score * confidence * score), in
\* hundredths to the power of two and three.
ReferenceWeight ==
    SumSeq([k \in DOMAIN correlations |->
                correlations[k].correlation_score * correlations[k].confidence])
ReferenceWeighted ==
    SumSeq([k \in DOMAIN correlations |->
                correlations[k].correlation_score * correlations[k].confidence
                    * correlations[k].correlation_score])

\* The steps of the reference, in order: <<applies, bonus, cap>> in
\* thousandths.
ReferenceSteps ==
    << IF HighScoreCount >= 3 THEN <<TRUE, 50, 950>> ELSE <<HighScoreCount >= 2, 30, 920>>,
       <<LocationMatchCount >= 2, 30, 900>>,
       <<HazardMatchCount >= 2, 20, 880>>,
       <<TRUE, (50 * HighUrgencyCount + 20 * MediumUrgencyCount) \div 2, 920>>,
       <<RecentCount >= 2, 20, 900>>,
       <<TRUE, 0, 950>> >>

\* The running value, as a numerator over ReferenceWeight, after the steps.
RECURSIVE ApplyReferenceSteps(_, _)
ApplyReferenceSteps(value, steps) ==
    IF steps = <<>> THEN value
    ELSE LET step == Head(steps)
             raised == value + step[2] * ReferenceWeight
             capped == IF raised <= step[3] * ReferenceWeight THEN raised
                       ELSE step[3] * ReferenceWeight
         IN  ApplyReferenceSteps(IF step[1] THEN capped ELSE value, Tail(steps))

\* C21: for every non-empty list with non-zero total weight the result is
\* the weighted average sum(score*confidence*score) / sum(score*confidence)
\* followed, in order and each capped at its own cap, by the bonus for high
\* scores, for location matches, for hazard matches, half the urgency
\* bonus, the bonus for recent posts and the final cap, rounded to 3
\* decimals.
C21_OverallConfidenceEqualsReference ==
    (overall_confidence # None /\ correlations # <<>> /\ ReferenceWeight # 0) =>
        overall_confidence[1]
            = Round3(ApplyReferenceSteps(10 * ReferenceWeighted, ReferenceSteps),
                     ReferenceWeight)

\* Three results for which every bonus applies and the caps 0.95, 0.90,
\* 0.88, 0.92 and 0.90 bite in turn: the result is 0.9.
C21_Witness ==
    /\ overall_confidence = Some(900)
    /\ HighScoreCount >= 3 /\ LocationMatchCount >= 2 /\ HazardMatchCount >= 2
    /\ HighUrgencyCount >= 1 /\ MediumUrgencyCount >= 1 /\ RecentCount >= 2
    /\ 10 * ReferenceWeighted > 900 * ReferenceWeight

\* C26: _calculate_overall_confidence never returns more than 0.92, and at
\* most 0.90 when at least two results have a recent-time cue; the ceiling
\* 0.95 is never reached.
C26_NeverAboveUrgencyCap ==
    overall_confidence # None =>
        /\ overall_confidence[1] <= 920
        /\ RecentCount >= 2 => overall_confidence[1] <= 900
        /\ overall_confidence[1] # 950

\* Three results of score above 0.7 whose weighted average is above 0.92,
\* one of them High and at most one recent: the bonus for high scores
\* brings the value to 0.95 and the urgency step takes it back to 0.92.
C26_Witness ==
    /\ overall_confidence = Some(920)
    /\ HighScoreCount >= 3
    /\ HighUrgencyCount >= 1
    /\ RecentCount < 2
    /\ 10 * ReferenceWeighted > 920 * ReferenceWeight

(***************************************************************************)
(* Properties of process_user_report (checked under SpecAgent).            *)
(***************************************************************************)
ReturnedList ==
    IF report_data.social_media_correlations = None THEN <<>>
    ELSE report_data.social_media_correlations[1]

\* C4: every correlation result kept in the correlation list, during and
\* after _analyze_correlations, has correlation_score strictly greater than
\* 0.3, whatever mix of remote and fallback classifications produced it.
C4_RetainedScoreAboveCutoff ==
    /\ \A k \in DOMAIN correlations : correlations[k].correlation_score > 30
    /\ (pc = "returned" /\ report_data.processing_error = None) =>
           \A k \in DOMAIN ReturnedList : ReturnedList[k].correlation_score > 30

\* A finished run with a remote and a fallback classification in which a
\* post scored exactly 0.3 was dropped and another post was retained.
C4_Witness ==
    /\ pc = "returned" /\ report_data.processing_error = None
    /\ \E k \in DOMAIN analyzed : analyzed[k].failed
    /\ \E k \in DOMAIN analyzed :
           ~analyzed[k].failed /\ analyzed[k].result.correlation_score = 30
    /\ ReturnedList # <<>>
    /\ Len(ReturnedList) < Len(analyzed)

\* C6: in a finished run, whatever calls failed, the failed keyword call has
\* been replaced by _generate_basic_keywords, every failed search call by the
\* synthetic post of the simulated search, every failed classification by
\* _basic_hazard_analysis of that post, and every post handed to
\* classification has been classified, those after a failed one included.
C6_EveryFailedCallReplacedByFallback ==
    (pc = "returned" /\ report_data.processing_error = None) =>
        /\ keywords_failed =>
               keywords_data = Some(generate_basic_keywords(report_data))
        /\ \A q \in DOMAIN search_log :
               search_log[q] =>
                   \E k \in DOMAIN social_posts :
                       social_posts[k].source = "simulated_twitter"
        /\ Len(analyzed) = Len(social_posts)
        /\ \A k \in DOMAIN analyzed :
               /\ analyzed[k].post_id = social_posts[k].id
               /\ analyzed[k].failed =>
                      analyzed[k].result = basic_hazard_analysis(report_data, social_posts[k])

\* C7: whenever process_user_report ends through its error handler, for a
\* fresh report and for one scored by an earlier run, the returned report
\* has correlation_confidence 0.0 and an empty correlation list.
C7_ErrorHandlerLeavesZeroAndEmpty ==
    (pc = "returned" /\ report_data.processing_error # None) =>
        /\ report_data.correlation_confidence = Some(0)
        /\ ReturnedList = <<>>

\* The search step of the run has returned its list of posts.
SearchStepDone ==
    \/ pc = "analyze"
    \/ pc = "returned" /\ keywords_data # None /\ KeywordsReadable(keywords_data[1])

\* The post is the stand-in built from the report's hazard type and city.
IsSyntheticPost(post) ==
    /\ post.source = "simulated_twitter"
    /\ {report_data.hazard_type, report_data.city} \subseteq post.text

\* C13: when the search credentials are missing, or a search request failed
\* in transport or with a non-200 status, the search step yields exactly one
\* synthetic post built from the report's hazard type and city and marked
\* as simulated, in place of the real results.
C13_FailedSearchYieldsOneSyntheticPost ==
    (SearchStepDone /\ (~rapidapi_key \/ \E q \in DOMAIN search_log : search_log[q])) =>
        /\ Len(social_posts) = 1
        /\ IsSyntheticPost(social_posts[1])

\* C14: in one run with search credentials at most 3 queries are sent to
\* the search API, and at least 2 seconds elapse between any two successive
\* queries, whether the earlier one was answered, got a non-200 status or
\* failed.
C14_AtMostThreeQueriesTwoSecondsApart ==
    /\ Len(sent_at) <= 3
    /\ Len(sent_at) = Len(search_log)
    /\ \A k \in 1..(Len(sent_at) - 1) : sent_at[k + 1] - sent_at[k] >= 2

\* A run whose keyword step gave four queries has sent three, the first of
\* which failed at once and was still followed by the pause.
C14_Witness ==
    /\ rapidapi_key
    /\ keywords_data # None /\ KeywordsReadable(keywords_data[1])
    /\ Len(search_queries(keywords_data[1])) = 4
    /\ Len(sent_at) = 3
    /\ search_log[1] /\ sent_at[2] - sent_at[1] = 2
    /\ ~search_log[2]

C20_SeverityFollowsFinalUrgency ==
    \A k \in DOMAIN analyzed :
        LET result == analyzed[k].result
        IN  <<result.severity_class, result.priority_score>>
                = Severity(result.urgency, result.confidence)

\* C27: with neither a classifier key nor a search key, process_user_report
\* on a report with a hazard type and a city classifies exactly three
\* synthetic posts by the fallback, keeps all three with score 0.75 and
\* urgency High, and returns a correlation_confidence of at least 0.90.
C27_StandInDataScoresHigh ==
    (/\ ~deepseek_api_key /\ ~rapidapi_key
     /\ pc = "returned"
     /\ report_data.hazard_type # "" /\ report_data.city # "") =>
        /\ Len(social_posts) = 3
        /\ Len(analyzed) = 3
        /\ \A k \in DOMAIN analyzed :
               /\ IsSyntheticPost(social_posts[k])
               /\ analyzed[k].failed /\ analyzed[k].remote_calls = 0
        /\ Len(ReturnedList) = 3
        /\ \A k \in DOMAIN ReturnedList :
               /\ ReturnedList[k].correlation_score = 75
               /\ ReturnedList[k].urgency = "High"
               /\ \E j \in DOMAIN social_posts : ReturnedList[k].post_id = social_posts[j].id
        /\ report_data.correlation_confidence # None
        /\ report_data.correlation_confidence[1] >= 900

\* A run without keys has returned for the report of a hazard the synthetic
\* text is not classified as: three results of category Flood for a
\* Tsunami report, and a confidence of 0.92.
C27_Witness ==
    /\ ~deepseek_api_key /\ ~rapidapi_key
    /\ pc = "returned"
    /\ report_data.hazard_type = "Tsunami"
    /\ Len(ReturnedList) = 3
    /\ \A k \in DOMAIN ReturnedList : ReturnedList[k].hazard_type = "Flood"
    /\ report_data.correlation_confidence = Some(920)

\* C28: every result of the fallback classifier has correlation_score equal
\* to its confidence, one of 0.5, 0.55, 0.6, 0.65 and 0.75, so the cutoff at
\* 0.3 removes none of them: the result is on the correlation list, also
\* when no hazard was detected, and when every classification of a run
\* fell back the list returned has one result per fetched post.
C28_FallbackResultsAllRetained ==
    /\ \A k \in DOMAIN analyzed :
           analyzed[k].failed =>
               /\ analyzed[k].result.correlation_score = analyzed[k].result.confidence
               /\ analyzed[k].result.correlation_score \in {50, 55, 60, 65, 75}
               /\ \E j \in DOMAIN correlations : correlations[j] = analyzed[k].result
    /\ (/\ pc = "returned" /\ SearchStepDone
        /\ \A k \in DOMAIN analyzed : analyzed[k].failed) =>
           /\ Len(analyzed) = Len(social_posts)
           /\ Len(ReturnedList) = Len(social_posts)

\* A run whose classifications all fell back has returned three results,
\* one of them of a post in which no hazard was detected.
C28_Witness ==
    /\ pc = "returned"
    /\ Len(analyzed) = 3
    /\ \A k \in DOMAIN analyzed : analyzed[k].failed
    /\ Len(ReturnedList) = 3
    /\ \E j \in DOMAIN ReturnedList :
           /\ ~ReturnedList[j].hazard_detected
           /\ ReturnedList[j].hazard_type = "Other"
           /\ ReturnedList[j].correlation_score = 50

\* Positions of the fetched posts whose id no earlier fetched post has.
FirstOccurrences ==
    {k \in DOMAIN matches : \A j \in 1..(k - 1) : matches[j].id # matches[k].id}

\* C24: the list _search_social_media_correlations hands to classification
\* never holds two posts with the same id, on the path of the real search
\* and on the simulated one; of the posts fetched by the real search it
\* holds the first occurrence of every id, in fetch order.
C24_NoDuplicateIdsFirstOccurrenceKept ==
    /\ \A i, j \in DOMAIN social_posts :
           i # j => social_posts[i].id # social_posts[j].id
    /\ (SearchStepDone /\ rapidapi_key) =>
           /\ Len(social_posts) = Cardinality(FirstOccurrences)
           /\ \A k \in FirstOccurrences :
                  social_posts[Cardinality({j \in FirstOccurrences : j <= k})] = matches[k]
    /\ (SearchStepDone /\ ~rapidapi_key) =>
           Len(social_posts) = Len(FirstThree(search_queries(keywords_data[1])))

\* Two queries of the real search fetched the same tweet; the list holds
\* it once, between the tweets fetched before and after it.
C24_Witness ==
    /\ rapidapi_key
    /\ SearchStepDone
    /\ \E j, k \in DOMAIN matches : j < k /\ matches[j].id = matches[k].id
    /\ Len(social_posts) = 3
    /\ Len(matches) > 3

(***************************************************************************)
(* Properties of _basic_hazard_analysis (checked under SpecFallback).      *)
(***************************************************************************)
\* C12: two calls of _basic_hazard_analysis with the same post text, for any
\* report and at any time, return the same hazard_type, the same urgency
\* and the same confidence.
C12_FallbackDeterministicInText ==
    \A i, j \in DOMAIN fallback_calls :
        fallback_calls[i].post.text = fallback_calls[j].post.text =>
            /\ fallback_calls[i].result.hazard_type = fallback_calls[j].result.hazard_type
            /\ fallback_calls[i].result.urgency = fallback_calls[j].result.urgency
            /\ fallback_calls[i].result.confidence = fallback_calls[j].result.confidence

\* Two calls on the same text of a hazard post, for different reports and at
\* different times, whose results differ elsewhere (the matching elements).
C12_Witness ==
    \E i, j \in DOMAIN fallback_calls :
        /\ fallback_calls[i].post.text = fallback_calls[j].post.text
        /\ fallback_calls[i].report # fallback_calls[j].report
        /\ fallback_calls[i].analyzed_at # fallback_calls[j].analyzed_at
        /\ fallback_calls[i].result.hazard_detected
        /\ fallback_calls[i].result.matching_elements # fallback_calls[j].result.matching_elements

\* The urgency _basic_hazard_analysis held before normalization, read from
\* the urgency tag of the matching elements, which are extracted before
\* the urgency is normalized.
PreNormalizationUrgency(result) ==
    IF \E k \in DOMAIN result.matching_elements : result.matching_elements[k] = "urgency:high"
    THEN "High"
    ELSE IF \E k \in DOMAIN result.matching_elements :
                result.matching_elements[k] = "urgency:medium"
         THEN "Medium"
         ELSE "Low"

\* The category the claim names for a lower-cased text.
FirstCategoryIn(lowered) ==
    IF AnyIn(hazard_category_keywords("Flood"), lowered) THEN "Flood"
    ELSE IF AnyIn(hazard_category_keywords("Storm Surge"), lowered) THEN "Storm Surge"
    ELSE IF AnyIn(hazard_category_keywords("High Waves"), lowered) THEN "High Waves"
    ELSE IF AnyIn(hazard_category_keywords("Coastal Erosion"), lowered) THEN "Coastal Erosion"
    ELSE "Other"

\* The urgency and confidence the claim names for a text with a category.
UrgencyRuleIn(lowered) ==
    IF AnyIn({"emergency", "evacuate", "rescue", "life threatening", "trapped"}, lowered)
    THEN <<"High", 75>>
    ELSE IF AnyIn({"urgent", "help", "danger", "severe", "heavy"}, lowered)
         THEN <<"Medium", 65>>
         ELSE IF AnyIn({"rising", "increasing", "getting worse", "warning"}, lowered)
              THEN <<"Medium", 60>>
              ELSE <<"Low", 55>>

\* C22: _basic_hazard_analysis picks the first category, in the order
\* Flood, Storm Surge, High Waves, Coastal Erosion, that has a keyword in
\* the lower-cased text, with hazard_detected true and, before
\* normalization, High/0.75 for a strong emergency word, else Medium/0.65
\* for a moderate word, else Medium/0.6 for a trend word, else Low/0.55;
\* with no category keyword it returns Other, not detected, Low, 0.5
\* whatever urgency words the text has.
C22_FirstCategoryAndUrgencyRule ==
    \A k \in DOMAIN fallback_calls :
        LET call == fallback_calls[k]
            lowered == LowerText(call.post.text)
            category == FirstCategoryIn(lowered)
        IN  /\ call.result.hazard_type = category
            /\ call.result.hazard_detected = (category # "Other")
            /\ <<PreNormalizationUrgency(call.result), call.result.confidence>>
                   = IF category = "Other" THEN <<"Low", 50>> ELSE UrgencyRuleIn(lowered)

\* One call on a text with keywords of Flood and of Storm Surge, answered
\* Flood, and one on a text with urgency words and no category keyword,
\* answered Other at 0.5.
C22_Witness ==
    \E i, j \in DOMAIN fallback_calls :
        /\ AnyIn(hazard_category_keywords("Flood"), LowerText(fallback_calls[i].post.text))
        /\ AnyIn(hazard_category_keywords("Storm Surge"), LowerText(fallback_calls[i].post.text))
        /\ fallback_calls[i].result.hazard_type = "Flood"
        /\ fallback_calls[i].result.confidence = 60
        /\ AnyIn({"evacuate", "urgent"}, LowerText(fallback_calls[j].post.text))
        /\ fallback_calls[j].result.hazard_type = "Other"
        /\ ~fallback_calls[j].result.hazard_detected
        /\ fallback_calls[j].result.confidence = 50

(***************************************************************************)
(* Properties of _extract_location_info (checked under SpecLocationInfo).  *)
(***************************************************************************)
\* The most frequent of the values, the first seen among equally frequent
\* ones; None for no value.
FirstSeenMode(values) ==
    IF values = <<>> THEN None
    ELSE LET modes == {j \in DOMAIN values :
                          \A i \in DOMAIN values :
                              CountOf(values, values[j]) >= CountOf(values, values[i])}
             first == CHOOSE j \in modes : \A i \in modes : j <= i
         IN  Some(values[first])

GroupCities ==
    TruthyValues([k \in DOMAIN LocationsOf(group_posts) |-> LocationsOf(group_posts)[k].city])
GroupStates ==
    TruthyValues([k \in DOMAIN LocationsOf(group_posts) |-> LocationsOf(group_posts)[k].state])

\* C23: city and state of a hotspot's location descriptor are each the
\* most frequent value among the contributing posts, the first seen in the
\* post sequence among equally frequent values, and every run on the same
\* post sequence returns the same descriptor.
C23_ModeWithFirstSeenTieBreak ==
    /\ \A k \in DOMAIN location_runs :
           location_runs[k] # <<>> =>
               /\ location_runs[k].city = FirstSeenMode(GroupCities)
               /\ location_runs[k].state = FirstSeenMode(GroupStates)
    /\ \A j, k \in DOMAIN location_runs : location_runs[j] = location_runs[k]

(***************************************************************************)
(* Properties of create_report (checked under SpecCreate; the liveness     *)
(* part of C15 under SpecCreateFair).                                      *)
(***************************************************************************)
\* The row of submission s still holds what the INSERT gave it.
RowUntouched(s) ==
    /\ report_id_of[s][1] \in DOMAIN rows
    /\ rows[report_id_of[s][1]] = DefaultRow

\* C15: create_report commits the row and answers after starting the
\* background task without waiting for it: every request that committed its
\* row is answered, also when its task never ends or fails; a task runs only
\* after its row was committed, and until the task writes the row exists
\* with the default confidence.
C15_ResponseWithoutWaitingForTask ==
    /\ [](\A s \in Submissions :
              /\ task_pc[s] # "none" => handler_pc[s] \in {"started", "responded"}
              /\ (report_id_of[s] # None /\ task_pc[s] # "done") => RowUntouched(s))
    /\ \A s \in Submissions :
           (handler_pc[s] = "committed") ~> (handler_pc[s] = "responded")

\* One request has been answered while its task is still running, another
\* after its task failed; both rows hold the default confidence.
C15_Witness ==
    \E s, t \in Submissions :
        /\ handler_pc[s] = "responded" /\ task_pc[s] = "running" /\ RowUntouched(s)
        /\ handler_pc[t] = "responded" /\ task_pc[t] = "failed" /\ RowUntouched(t)

\* Committed writes of the correlation fields of one row.
WritesTo(id) == {k \in DOMAIN write_log : write_log[k].report_id = id}

CorrelationFields ==
    {"correlation_confidence", "social_media_correlations", "generated_keywords"}

\* Every write of the row of s was made by the task of s and set all three
\* fields.
OnlyOwnWholeWrites(s) ==
    \A k \in WritesTo(report_id_of[s][1]) :
        write_log[k].task = s /\ write_log[k].fields = CorrelationFields

CorrelationColumns(row) ==
    <<row.correlation_confidence, row.social_media_correlations, row.generated_keywords>>
StatusColumns(row) == <<row.status, row.admin_notes, row.updated_at>>

\* The row of submission s once its task has written what the agent
\* returned and the admin's request has been committed at time at.
RowAfterBoth(s, at) ==
    LET report == enhanced[s][1]
    IN  [ correlation_confidence    |-> report.correlation_confidence,
          social_media_correlations |-> IF report.social_media_correlations = None
                                        THEN Some(<<>>)
                                        ELSE report.social_media_correlations,
          generated_keywords        |-> report.generated_keywords,
          status                    |-> admin_request[1].status,
          admin_notes               |-> Some(admin_request[1].admin_notes),
          updated_at                |-> at ]

\* C30: the background correlation write and the admin's status update on
\* the same report write disjoint columns: in every interleaving the
\* background write leaves status, admin_notes and updated_at of every row
\* unchanged, the admin's update leaves the three correlation fields of
\* every row unchanged, and once both are committed the row is the same
\* whichever came first.
C30_DisjointColumnsCommute ==
    /\ [][ /\ write_log' # write_log =>
                \A id \in DOMAIN rows : StatusColumns(rows'[id]) = StatusColumns(rows[id])
           /\ admin_log' # admin_log =>
                \A id \in DOMAIN rows :
                    CorrelationColumns(rows'[id]) = CorrelationColumns(rows[id]) ]_vars
    /\ [](\A s \in Submissions :
              (/\ task_pc[s] = "done" /\ admin_pc = "done"
               /\ report_id_of[s] = Some(admin_request[1].report_id)) =>
                  rows[report_id_of[s][1]] = RowAfterBoth(s, admin_log[1].at))

\* The admin's request read the row before the task wrote it and was
\* committed after, a second or more after the INSERT: the row holds the
\* task's correlation fields and the admin's status.
C30_Witness ==
    /\ admin_pc = "done" /\ admin_seen # None
    /\ admin_seen[1].correlation_confidence = 0
    /\ \E s \in Submissions :
           /\ task_pc[s] = "done"
           /\ report_id_of[s] = Some(admin_request[1].report_id)
           /\ rows[report_id_of[s][1]].correlation_confidence = 920
           /\ rows[report_id_of[s][1]].status = "verified"
           /\ rows[report_id_of[s][1]].updated_at > 0
           /\ write_log # <<>>
====
